---- MODULE Spec2Model ----
(***************************************************************************)
(* A model of the OpenTelemetry JS API foundation layer: the global        *)
(* registry, the ContextAPI facade with its pluggable ContextManager, the  *)
(* immutable Context and the DiagAPI logger facade.                        *)
(*                                                                         *)
(* JavaScript runs one task at a time to completion.  A task is either the *)
(* top-level synchronous code of a logical execution or the continuation   *)
(* of an async callback after a suspension point.  The callback handed to  *)
(* context.with is environment code: the model enters it with the action   *)
(* With and leaves it with the action Return (the callback returns a plain *)
(* value, throws, or returns a promise after suspending at an await).      *)
(***************************************************************************)
EXTENDS Integers, Sequences, FiniteSets, TLC

\* ------------------------------------------------------------------ sets
\* No execution, no context.
None == "none"

\* An empty registry slot (getGlobal answers undefined).
undefined == [kind |-> "undefined"]

\* The unique empty Context, created once at load time.
ROOT_CONTEXT == "ROOT"

\* References to Context objects handed to the context manager.
Contexts == {ROOT_CONTEXT, "ctxA", "ctxB"}

\* Instances of SimpleContextManager built by a collaborator.
M1 == [kind |-> "SimpleContextManager", id |-> "M1"]

M2 == [kind |-> "SimpleContextManager", id |-> "M2"]

Managers == {M1, M2}

\* Logical executions (for example two concurrently handled requests).
Execs == {"e1", "e2"}

\* An execution that is not inside the extent of an async with callback.
NoExt == [ctx |-> None, mgr |-> undefined]

\* Targets handed to bind.
Targets == {"target"}

\* How a callback leaves: returns a value, throws, returns a promise.
SyncOutcomes == {"value", "throw"}

Outcomes == SyncOutcomes \cup {"promise"}

\* Largest nesting depth of with callbacks explored.
MaxDepth == 2

\* Largest number of attach tokens issued by tracking managers.
MaxTokens == 2

\* src/src/api/context.ts:26
API_NAME == "context"

\* src/src/api/context.ts:27
NOOP_CONTEXT_MANAGER == [kind |-> "NoopContextManager"]

\* The token NoopContextManager.attach hands out: it restores nothing.
NOOP_TOKEN == 0

\* The name DiagAPI registers its filtered logger under.
DIAG_NAME == "diag"

\* The names the DiagAPI of src/src/api/diag.ts registers its logger, its
\* filtered logger and its level under.
DIAG_LOGGER == "diagLogger"

FILTERED_DIAG_LOGGER == "filteredDiagLogger"

DIAG_LOG_LEVEL == "diagLogLevel"

RegistryNames ==
  {API_NAME, DIAG_NAME, DIAG_LOGGER, FILTERED_DIAG_LOGGER, DIAG_LOG_LEVEL}

\* DiagLogLevel, in the order NONE < ERROR < WARN < INFO < DEBUG < VERBOSE < ALL
DiagLogLevel ==
  [NONE |-> 0, ERROR |-> 30, WARN |-> 50, INFO |-> 60, DEBUG |-> 70,
   VERBOSE |-> 80, ALL |-> 9999]

\* Levels a caller may ask for, two of them out of range.
LevelInputs ==
  {DiagLogLevel.NONE - 1, DiagLogLevel.NONE, DiagLogLevel.WARN,
   DiagLogLevel.INFO, DiagLogLevel.ALL, DiagLogLevel.ALL + 1}

\* Loggers supplied by the application.
L1 == [kind |-> "DiagLogger", id |-> "L1"]

L2 == [kind |-> "DiagLogger", id |-> "L2"]

\* createNoopDiagLogger()
NoopDiagLogger == [kind |-> "NoopDiagLogger"]

\* What a caller may hand to DiagAPI.setLogger: nothing, the DiagAPI itself,
\* or a logger.
LoggerInputs == {[kind |-> "omitted"], [kind |-> "self"], L1, L2}

\* The five severity methods of a DiagLogger.
diagLoggerFunctions == {"error", "warn", "info", "debug", "verbose"}

\* The level each method is created with in createLogLevelDiagLogger.
FuncLevel ==
  [error |-> DiagLogLevel.ERROR, warn |-> DiagLogLevel.WARN,
   info |-> DiagLogLevel.INFO, debug |-> DiagLogLevel.DEBUG,
   verbose |-> DiagLogLevel.VERBOSE]

\* Argument lists handed to a log call.
LogArgs == {"msg1", "msg2"}

\* Longest delegation chain of one log call that is followed.
MaxChain == 4

\* Copies of the API module loaded in the process, and the
\* API_BACKWARDS_COMPATIBILITY_VERSION each was built with.
Copies == {"A", "B", "C"}

CopyVersion == [A |-> 1, B |-> 1, C |-> 2]

\* A module copy that has not called DiagAPI.instance() yet.
NoInstance == [kind |-> "none"]

\* No span wrapper call was made yet.
NoSpan == [kind |-> "none"]

\* Context keys (symbols) and the values stored under them.
Keys == {"k1", "k2"}

Values == {"v1", "v2"}

\* What getValue answers for a key without an entry.
Absent == "undefined"

\* The key the suppress-instrumentation helpers read and write.
SUPPRESS_INSTRUMENTATION_KEY ==
  "OpenTelemetry Context Key SUPPRESS_INSTRUMENTATION"

\* Every key a Context can hold an entry for.
ContextKeys == Keys \cup {SUPPRESS_INSTRUMENTATION_KEY}

\* The values the callers store under the suppress-instrumentation key: the
\* booleans, null, undefined, a non-empty string and the number zero.
SuppressValues == {"true", "false", "null", Absent, "v1", "0"}

\* Largest number of Context objects created, ROOT_CONTEXT included.
MaxObjects == 4

VARIABLES
  registry,       \* the global registry: singleton name -> instance or undefined
  activeContext,  \* SimpleContextManager._activeContext, per instance
  restoreKeys,    \* attach tokens issued so far: token -> [mgr, prev]
  stack,          \* with callbacks being executed, innermost last
  running,        \* the execution whose task is on the JS stack, or None
  phase,          \* "idle", "task" (top-level code) or "cont" (continuation)
  ext,            \* per execution: its suspended async with, [ctx, mgr], or NoExt
  store,          \* the Context objects created so far: reference -> entries
  lastOp,         \* the API call completed last: [op, arg, ret]
  globalDiag,     \* _global[GLOBAL_DIAG_LOGGER_API_KEY]: a getter, or undefined
  filteredLogger, \* _filteredLogger of the DiagAPI each module copy created
  held,           \* per module copy: what DiagAPI.instance() answered it
  spanState       \* the span wrapper call made last: what happened to its span

\* The state of the DiagAPI kept in the version-gated global slot.
diagVars == <<globalDiag, filteredLogger, held>>

\* The state of the ContextAPI, its managers, the event loop and the
\* Context objects.
contextVars == <<registry, activeContext, restoreKeys, stack, running,
                 phase, ext, store>>

vars == <<registry, activeContext, restoreKeys, stack, running,
          phase, ext, store, lastOp, globalDiag, filteredLogger, held,
          spanState>>

Op(op, arg, ret) == [op |-> op, arg |-> arg, ret |-> ret]

\* ------------------------------------------------------- global registry
\* registerGlobal(name, instance, diag, allowOverride = false): the new
\* registry, the boolean returned and the diagnostic handed to diag.
registerGlobal(reg, name, instance, allowOverride) ==
  IF reg[name] = undefined
    THEN [reg |-> [reg EXCEPT ![name] = instance], ok |-> TRUE, diag |-> "none"]
    ELSE IF ~allowOverride
      THEN [reg |-> reg, ok |-> FALSE, diag |-> "warn"]
      ELSE [reg |-> [reg EXCEPT ![name] = instance], ok |-> TRUE, diag |-> "warn"]

\* getGlobal(name): the instance, or undefined.
getGlobal(reg, name) == reg[name]

\* unregisterGlobal(name, diag): clears the entry if present.
unregisterGlobal(reg, name) == [reg EXCEPT ![name] = undefined]

Init ==
  /\ registry = [n \in RegistryNames |-> undefined]
  /\ activeContext = [m \in Managers |-> ROOT_CONTEXT]
  /\ restoreKeys = <<>>
  /\ stack = <<>>
  /\ running = None
  /\ phase = "idle"
  /\ ext = [e \in Execs |-> NoExt]
  /\ store = <<[k \in ContextKeys |-> Absent]>>
  /\ lastOp = Op("init", None, None)
  /\ globalDiag = undefined
  /\ filteredLogger = [c \in Copies |-> undefined]
  /\ held = [c \in Copies |-> NoInstance]
  /\ spanState = NoSpan

\* ----------------------------------------------------------------- DiagAPI
\* createLogLevelDiagLogger(maxLevel, logger): the level is clamped into
\* NONE..ALL; without a logger the answer is a no-op logger.  The variant
\* clamps to the wrong end.
createLogLevelDiagLogger_swapped(maxLevel, logger) ==
  LET lvl == IF maxLevel < DiagLogLevel.NONE THEN DiagLogLevel.ALL
             ELSE IF maxLevel > DiagLogLevel.ALL THEN DiagLogLevel.NONE
             ELSE maxLevel
  IN IF logger = undefined
       THEN NoopDiagLogger
       ELSE [kind |-> "LogLevelDiagLogger", maxLevel |-> lvl, logger |-> logger]

createLogLevelDiagLogger(maxLevel, logger) ==
  LET lvl == IF maxLevel < DiagLogLevel.NONE THEN DiagLogLevel.NONE
             ELSE IF maxLevel > DiagLogLevel.ALL THEN DiagLogLevel.ALL
             ELSE maxLevel
  IN IF logger = undefined
       THEN NoopDiagLogger
       ELSE [kind |-> "LogLevelDiagLogger", maxLevel |-> lvl, logger |-> logger]

\* DiagAPI.getLogger: getGlobal('diag') || _noopLogger.  The variant falls
\* back to a logger of the application.
DiagAPI_getLogger_sink ==
  IF getGlobal(registry, DIAG_NAME) # undefined
    THEN getGlobal(registry, DIAG_NAME)
    ELSE L1

DiagAPI_getLogger ==
  IF getGlobal(registry, DIAG_NAME) # undefined
    THEN getGlobal(registry, DIAG_NAME)
    ELSE NoopDiagLogger

\* FilteredDiagLogger.getChild: a logger derived from the wrapped one.
getChild(logger) ==
  IF logger.kind = "LogLevelDiagLogger" THEN logger.logger ELSE logger

\* The logger DiagAPI.setLogger wraps: the default parameter, the guard
\* against the DiagAPI being its own logger, or the logger given.  The
\* variant has no guard and wraps the DiagAPI itself.
DiagAPI_effectiveLogger_noguard(logger) ==
  IF logger.kind = "omitted" THEN NoopDiagLogger ELSE logger

DiagAPI_effectiveLogger(logger) ==
  IF logger.kind = "omitted" THEN NoopDiagLogger
  ELSE IF logger.kind = "self" THEN getChild(DiagAPI_getLogger)
  ELSE logger

\* DiagAPI.setLogger: registerGlobal('diag', createLogLevelDiagLogger(..), true).
\* The variant registers without override.
DiagAPI_setLogger_nooverride(logger, logLevel) ==
  registerGlobal(registry, DIAG_NAME,
                 createLogLevelDiagLogger(logLevel, DiagAPI_effectiveLogger(logger)),
                 FALSE)

DiagAPI_setLogger(logger, logLevel) ==
  registerGlobal(registry, DIAG_NAME,
                 createLogLevelDiagLogger(logLevel, DiagAPI_effectiveLogger(logger)),
                 TRUE)

DiagSetLogger(logger, logLevel) ==
  /\ LET r == DiagAPI_setLogger(logger, logLevel) IN
       /\ registry' = r.reg
       /\ lastOp' = Op("diag.setLogger",
                       [logger |-> logger, logLevel |-> logLevel,
                        prior |-> getGlobal(registry, DIAG_NAME),
                        argc |-> 2],
                       r.ok)
  /\ UNCHANGED <<diagVars, spanState, activeContext, restoreKeys, stack, running, phase, ext, store>>

\* The default of setLogger's parameter logLevel.  The variant defaults to
\* DEBUG.
DiagAPI_setLogger_logLevel_debug == DiagLogLevel.DEBUG

DiagAPI_setLogger_logLevel == DiagLogLevel.INFO

\* setLogger(logger), the level left out: logLevel takes its default.
DiagSetLoggerNoLevel(logger) ==
  /\ LET r == DiagAPI_setLogger(logger, DiagAPI_setLogger_logLevel) IN
       /\ registry' = r.reg
       /\ lastOp' = Op("diag.setLogger",
                       [logger |-> logger,
                        logLevel |-> DiagAPI_setLogger_logLevel,
                        prior |-> getGlobal(registry, DIAG_NAME),
                        argc |-> 1],
                       r.ok)
  /\ UNCHANGED <<diagVars, spanState, activeContext, restoreKeys, stack, running, phase, ext, store>>

\* DiagAPI.disable: unregisterGlobal('diag').  The variant leaves the
\* registered logger in place.
DiagAPI_disable_keep == registry

DiagAPI_disable == unregisterGlobal(registry, DIAG_NAME)

DiagDisable ==
  /\ registry' = DiagAPI_disable
  /\ lastOp' = Op("diag.disable", [prior |-> getGlobal(registry, DIAG_NAME)], None)
  /\ UNCHANGED <<diagVars, spanState, activeContext, restoreKeys, stack, running, phase, ext, store>>

\* _filterFunc: the method forwards when maxLevel >= theLevel, and is an
\* empty function otherwise.  The variant forwards only above the level.
filterFunc_forwards_above(maxLevel, theLevel) == maxLevel > theLevel

filterFunc_forwards(maxLevel, theLevel) == maxLevel >= theLevel

\* A log call that reached no logger of the application, and returned.
Dropped == [calls |-> <<>>, done |-> TRUE]

\* One call of method funcName of an application's logger.
Call(logger, funcName, args) ==
  [logger |-> logger, funcName |-> funcName, args |-> args]

\* logger[funcName](args): the calls of methods of the application's loggers
\* it makes, and whether it returns within `fuel` delegations.  A no-op
\* logger does nothing, a level logger forwards to the logger it wraps or
\* does nothing, the DiagAPI delegates to the registered logger (_logProxy).
RECURSIVE DiagLogger_call(_, _, _, _)
DiagLogger_call(logger, funcName, args, fuel) ==
  IF fuel = 0 THEN [calls |-> <<>>, done |-> FALSE]
  ELSE IF logger.kind = "NoopDiagLogger" THEN Dropped
  ELSE IF logger.kind = "DiagLogger"
    THEN [calls |-> <<Call(logger, funcName, args)>>, done |-> TRUE]
  ELSE IF logger.kind = "LogLevelDiagLogger"
    THEN IF filterFunc_forwards(logger.maxLevel, FuncLevel[funcName])
           THEN DiagLogger_call(logger.logger, funcName, args, fuel - 1)
           ELSE Dropped
  ELSE DiagLogger_call(DiagAPI_getLogger, funcName, args, fuel - 1)

\* DiagAPI.error .. verbose: _logProxy(funcName) applied to args
DiagAPI_logProxy(funcName, args) ==
  DiagLogger_call(DiagAPI_getLogger, funcName, args, MaxChain)

DiagLog(funcName, args) ==
  /\ lastOp' = Op("diag.log", [funcName |-> funcName, args |-> args],
                  DiagAPI_logProxy(funcName, args))
  /\ UNCHANGED <<diagVars, spanState, registry, activeContext, restoreKeys, stack, running, phase,
                 ext, store>>

\* ------------------------------- DiagAPI with a level of its own (diag.ts)
\* A DiagLogLevel kept in the registry.
Level(n) == [kind |-> "DiagLogLevel", value |-> n]

\* getLevel(): getGlobal('diagLogLevel') ?? DiagLogLevel.INFO
getLevel(reg) ==
  IF getGlobal(reg, DIAG_LOG_LEVEL) # undefined
    THEN getGlobal(reg, DIAG_LOG_LEVEL).value
    ELSE DiagLogLevel.INFO

\* getLogger: getGlobal('diagLogger') || _noopLogger
diag_getLogger(reg) ==
  IF getGlobal(reg, DIAG_LOGGER) # undefined THEN getGlobal(reg, DIAG_LOGGER)
                                             ELSE NoopDiagLogger

\* setLogger(logger?): the registry it leaves and the logger it returns.
\* The variant builds the filter at INFO whatever level is registered.
diag_setLogger_atinfo(logger) ==
  LET previous  == diag_getLogger(registry)
      cleared   == unregisterGlobal(unregisterGlobal(registry, DIAG_LOGGER),
                                    FILTERED_DIAG_LOGGER)
      newLogger == IF logger.kind = "omitted" THEN NoopDiagLogger ELSE logger
      withLogger == registerGlobal(cleared, DIAG_LOGGER, newLogger, FALSE).reg
  IN [reg |-> registerGlobal(withLogger, FILTERED_DIAG_LOGGER,
                             createLogLevelDiagLogger(DiagLogLevel.INFO,
                                                      newLogger),
                             FALSE).reg,
      ret |-> previous]

diag_setLogger(logger) ==
  LET previous  == diag_getLogger(registry)
      cleared   == unregisterGlobal(unregisterGlobal(registry, DIAG_LOGGER),
                                    FILTERED_DIAG_LOGGER)
      newLogger == IF logger.kind = "omitted" THEN NoopDiagLogger ELSE logger
      withLogger == registerGlobal(cleared, DIAG_LOGGER, newLogger, FALSE).reg
  IN [reg |-> registerGlobal(withLogger, FILTERED_DIAG_LOGGER,
                             createLogLevelDiagLogger(getLevel(withLogger),
                                                      newLogger),
                             FALSE).reg,
      ret |-> previous]

DiagTsSetLogger(logger) ==
  /\ LET r == diag_setLogger(logger) IN
       /\ registry' = r.reg
       /\ lastOp' = Op("diagts.setLogger",
                       [logger |-> logger,
                        prior |-> getGlobal(registry, DIAG_LOGGER)],
                       r.ret)
  /\ UNCHANGED <<diagVars, spanState, activeContext, restoreKeys, stack,
                 running, phase, ext, store>>

\* setLogLevel(maxLogLevel): the level and the filtered logger registered
\* anew around the current logger.
diag_setLogLevel(maxLogLevel) ==
  LET logger  == diag_getLogger(registry)
      cleared == unregisterGlobal(unregisterGlobal(registry, DIAG_LOG_LEVEL),
                                  FILTERED_DIAG_LOGGER)
      withLevel == registerGlobal(cleared, DIAG_LOG_LEVEL, Level(maxLogLevel),
                                  FALSE).reg
  IN registerGlobal(withLevel, FILTERED_DIAG_LOGGER,
                    createLogLevelDiagLogger(maxLogLevel, logger), FALSE).reg

DiagTsSetLogLevel(maxLogLevel) ==
  /\ registry' = diag_setLogLevel(maxLogLevel)
  /\ lastOp' = Op("diagts.setLogLevel", [maxLogLevel |-> maxLogLevel], undefined)
  /\ UNCHANGED <<diagVars, spanState, activeContext, restoreKeys, stack,
                 running, phase, ext, store>>

\* The logger _logProxy hands a call to:
\* getGlobal('filteredDiagLogger') || _noopLogger
diag_theLogger ==
  IF getGlobal(registry, FILTERED_DIAG_LOGGER) # undefined
    THEN getGlobal(registry, FILTERED_DIAG_LOGGER)
    ELSE NoopDiagLogger

\* logger[funcName](args) in this version: the DiagAPI itself, set as its own
\* logger, delegates to the filtered logger again.
RECURSIVE diag_call(_, _, _, _)
diag_call(logger, funcName, args, fuel) ==
  IF fuel = 0 THEN [calls |-> <<>>, done |-> FALSE]
  ELSE IF logger.kind = "NoopDiagLogger" THEN Dropped
  ELSE IF logger.kind = "DiagLogger"
    THEN [calls |-> <<Call(logger, funcName, args)>>, done |-> TRUE]
  ELSE IF logger.kind = "LogLevelDiagLogger"
    THEN IF filterFunc_forwards(logger.maxLevel, FuncLevel[funcName])
           THEN diag_call(logger.logger, funcName, args, fuel - 1)
           ELSE Dropped
  ELSE diag_call(diag_theLogger, funcName, args, fuel - 1)

\* DiagAPI.error .. verbose of this version
diag_logProxy(funcName, args) ==
  diag_call(diag_theLogger, funcName, args, MaxChain)

DiagTsLog(funcName, args) ==
  /\ lastOp' = Op("diagts.log", [funcName |-> funcName, args |-> args],
                  diag_logProxy(funcName, args))
  /\ UNCHANGED <<diagVars, spanState, registry, activeContext, restoreKeys,
                 stack, running, phase, ext, store>>

\* --------------------------------------- DiagAPI in the version-gated slot
\* new DiagAPI() made by module copy c, and the private noopDiagApi() that
\* comes with the getter copy c stored.
DiagAPIOf(c) == [kind |-> "DiagAPI", id |-> c]

noopDiagApi(c) == [kind |-> "noopDiagApi", id |-> c]

\* makeGetter(requiredVersion, instance, fallback)
makeGetter(requiredVersion, instance, fallback) ==
  [kind |-> "getter", version |-> requiredVersion,
   instance |-> instance, fallback |-> fallback]

\* The getter called with the caller's version.
callGetter(getter, version) ==
  IF version = getter.version THEN getter.instance ELSE getter.fallback

\* DiagAPI.instance() called in module copy c: what it answers and what the
\* slot holds afterwards.  The first variant never hands the version of the
\* caller to the getter but the one the getter was made for; the second
\* never looks at the slot.
DiagAPI_instance_anyversion(c) ==
  IF globalDiag # undefined
    THEN [inst |-> callGetter(globalDiag, globalDiag.version), slot |-> globalDiag]
    ELSE [inst |-> DiagAPIOf(c),
          slot |-> makeGetter(CopyVersion[c], DiagAPIOf(c), noopDiagApi(c))]

DiagAPI_instance_fresh(c) ==
  [inst |-> DiagAPIOf(c),
   slot |-> makeGetter(CopyVersion[c], DiagAPIOf(c), noopDiagApi(c))]

DiagAPI_instance(c) ==
  IF globalDiag # undefined
    THEN [inst |-> callGetter(globalDiag, CopyVersion[c]), slot |-> globalDiag]
    ELSE [inst |-> DiagAPIOf(c),
          slot |-> makeGetter(CopyVersion[c], DiagAPIOf(c), noopDiagApi(c))]

Instance(c) ==
  /\ LET r == DiagAPI_instance(c) IN
       /\ globalDiag' = r.slot
       /\ held' = [held EXCEPT ![c] = r.inst]
       /\ lastOp' = Op("diag.instance", [copy |-> c, slot |-> globalDiag], r.inst)
  /\ UNCHANGED <<contextVars, filteredLogger, spanState>>

\* getLogger of a DiagAPI object: _filteredLogger || _noopLogger; the
\* noopDiagApi answers its no-op logger.
Instance_getLogger(inst) ==
  IF inst.kind = "DiagAPI" /\ filteredLogger[inst.id] # undefined
    THEN filteredLogger[inst.id]
    ELSE NoopDiagLogger

\* setLogger of a DiagAPI object: the guard against the object being its
\* own logger, the no-op logger for a missing one, then the level filter.
\* setLogger of the noopDiagApi does nothing.
\* In the variant the noopDiagApi hands the call on to the DiagAPI the
\* slot's getter was made for.
Instance_setLogger_passthrough(inst, logger, logLevel) ==
  LET target == IF inst.kind = "DiagAPI" THEN inst ELSE globalDiag.instance
      lg == IF logger.kind = "self" THEN getChild(Instance_getLogger(target))
            ELSE IF logger.kind = "omitted" THEN NoopDiagLogger
            ELSE logger
  IN [filteredLogger EXCEPT ![target.id] = createLogLevelDiagLogger(logLevel, lg)]

Instance_setLogger(inst, logger, logLevel) ==
  IF inst.kind = "DiagAPI"
    THEN LET lg == IF logger.kind = "self" THEN getChild(Instance_getLogger(inst))
                   ELSE IF logger.kind = "omitted" THEN NoopDiagLogger
                   ELSE logger
         IN [filteredLogger EXCEPT ![inst.id] = createLogLevelDiagLogger(logLevel, lg)]
    ELSE filteredLogger

CopySetLogger(c, logger, logLevel) ==
  /\ held[c] # NoInstance
  /\ filteredLogger' = Instance_setLogger(held[c], logger, logLevel)
  /\ lastOp' = Op("diag.copy.setLogger",
                  [copy |-> c, logger |-> logger, logLevel |-> logLevel,
                   prior |-> Instance_getLogger(held[c])],
                  undefined)
  /\ UNCHANGED <<contextVars, globalDiag, held, spanState>>

\* disable of a DiagAPI object: _filteredLogger = undefined; disable of the
\* noopDiagApi does nothing.
Instance_disable(inst) ==
  IF inst.kind = "DiagAPI"
    THEN [filteredLogger EXCEPT ![inst.id] = undefined]
    ELSE filteredLogger

CopyDisable(c) ==
  /\ held[c] # NoInstance
  /\ filteredLogger' = Instance_disable(held[c])
  /\ lastOp' = Op("diag.copy.disable", [copy |-> c], None)
  /\ UNCHANGED <<contextVars, globalDiag, held, spanState>>

\* error .. verbose of a DiagAPI object: _logProxy(funcName), which calls
\* the method of _filteredLogger || _noopLogger; the methods of the
\* noopDiagApi are those of its no-op logger.
Instance_logProxy(inst, funcName, args) ==
  DiagLogger_call(Instance_getLogger(inst), funcName, args, MaxChain)

CopyLog(c, funcName, args) ==
  /\ held[c] # NoInstance
  /\ lastOp' = Op("diag.copy.log",
                  [copy |-> c, funcName |-> funcName, args |-> args],
                  Instance_logProxy(held[c], funcName, args))
  /\ UNCHANGED <<contextVars, diagVars, spanState>>

\* ------------------------------------------------------ context managers
\* NoopContextManager.active
NoopContextManager_active == ROOT_CONTEXT

\* SimpleContextManager.active
SimpleContextManager_active(m) == activeContext[m]

ManagerActive(m) ==
  IF m = NOOP_CONTEXT_MANAGER THEN NoopContextManager_active
                              ELSE SimpleContextManager_active(m)

\* ContextAPI._getContextManager: getGlobal(API_NAME) || NOOP_CONTEXT_MANAGER.
\* The variant falls back to a tracking manager.
GetContextManager_tracking ==
  IF getGlobal(registry, API_NAME) # undefined THEN getGlobal(registry, API_NAME)
                                               ELSE M1

GetContextManager ==
  IF getGlobal(registry, API_NAME) # undefined THEN getGlobal(registry, API_NAME)
                                               ELSE NOOP_CONTEXT_MANAGER

\* ContextAPI.active
ContextAPI_active == ManagerActive(GetContextManager)

Top == stack[Len(stack)]

\* ContextAPI.setGlobalContextManager: what registerGlobal answers.  The
\* variant asks for an override.
ContextAPI_setGlobalContextManager_override(contextManager) ==
  registerGlobal(registry, API_NAME, contextManager, TRUE)

ContextAPI_setGlobalContextManager(contextManager) ==
  registerGlobal(registry, API_NAME, contextManager, FALSE)

SetGlobalContextManager(m) ==
  /\ LET r == ContextAPI_setGlobalContextManager(m) IN
       /\ registry' = r.reg
       /\ lastOp' = Op("setGlobalContextManager", m, r.ok)
  /\ UNCHANGED <<diagVars, spanState, activeContext, restoreKeys, stack, running, phase, ext, store>>

\* ContextManager.with as SimpleContextManager implements it, up to fn.call:
\* remember the active context, make `context` active, call fn.  The variant
\* forgets to make it active.
SimpleContextManager_with_noset(m, context) ==
  [frame  |-> [mgr |-> m, prev |-> activeContext[m], ctx |-> context],
   active |-> activeContext]

SimpleContextManager_with(m, context) ==
  [frame  |-> [mgr |-> m, prev |-> activeContext[m], ctx |-> context],
   active |-> [activeContext EXCEPT ![m] = context]]

\* NoopContextManager.with: call fn, track nothing.
NoopContextManager_with(context) ==
  [frame  |-> [mgr |-> NOOP_CONTEXT_MANAGER, prev |-> None, ctx |-> context],
   active |-> activeContext]

ManagerWith(m, context) ==
  IF m = NOOP_CONTEXT_MANAGER THEN NoopContextManager_with(context)
                              ELSE SimpleContextManager_with(m, context)

\* ContextAPI.with: delegate to the current manager.
ContextAPI_with(context) == ManagerWith(GetContextManager, context)

With(ctx) ==
  /\ Len(stack) < MaxDepth
  /\ LET r == ContextAPI_with(ctx) IN
       /\ stack' = Append(stack, r.frame)
       /\ activeContext' = r.active
  /\ lastOp' = Op("with", ctx, None)
  /\ UNCHANGED <<diagVars, spanState, registry, restoreKeys, running, phase, ext, store>>

\* The finally block of SimpleContextManager.with: whatever way fn left,
\* the remembered context becomes active again.  The variants restore only
\* when fn did not return a promise, go back to ROOT_CONTEXT, or restore
\* only when the context made active by with is still the active one.
SimpleContextManager_with_finally_async(f, outcome) ==
  IF outcome = "promise" THEN activeContext
                         ELSE [activeContext EXCEPT ![f.mgr] = f.prev]

SimpleContextManager_with_finally_root(f, outcome) ==
  [activeContext EXCEPT ![f.mgr] = ROOT_CONTEXT]

SimpleContextManager_with_finally_guarded(f, outcome) ==
  IF activeContext[f.mgr] = f.ctx THEN [activeContext EXCEPT ![f.mgr] = f.prev]
                                  ELSE activeContext

\* A fourth variant restores after the call instead of in a finally block,
\* so not when fn throws.
SimpleContextManager_with_finally_nothrow(f, outcome) ==
  IF outcome = "throw" THEN activeContext
                       ELSE [activeContext EXCEPT ![f.mgr] = f.prev]

SimpleContextManager_with_finally(f, outcome) ==
  [activeContext EXCEPT ![f.mgr] = f.prev]

ManagerWithReturn(f, outcome) ==
  IF f.mgr = NOOP_CONTEXT_MANAGER THEN activeContext
                                  ELSE SimpleContextManager_with_finally(f, outcome)

\* Did the callback leave with another context active than the one its with
\* made active (an attach or detach inside it that was not undone)?
Overridden(f) == f.mgr # NOOP_CONTEXT_MANAGER /\ activeContext[f.mgr] # f.ctx

\* The innermost with callback leaves and with hands its result on.  An
\* async callback suspends at an await and hands its promise back; its
\* continuation runs in a later task.
Return(outcome) ==
  /\ stack # <<>>
  /\ outcome = "promise" => Len(stack) = 1 /\ running # None /\ ext[running] = NoExt
  /\ activeContext' = ManagerWithReturn(Top, outcome)
  /\ stack' = SubSeq(stack, 1, Len(stack) - 1)
  /\ ext' = IF outcome = "promise"
              THEN [ext EXCEPT ![running] = [ctx |-> Top.ctx, mgr |-> Top.mgr]]
              ELSE ext
  /\ lastOp' = Op("return", Overridden(Top), outcome)
  /\ UNCHANGED <<diagVars, spanState, registry, restoreKeys, running, phase, store>>

\* NoopContextManager.bind (SimpleContextManager inherits it): the target.
NoopContextManager_bind(context, target) == target

\* ContextAPI.bind
ContextAPI_bind(context, target) == NoopContextManager_bind(context, target)

Bind(ctx, target) ==
  /\ lastOp' = Op("bind", target, ContextAPI_bind(ctx, target))
  /\ UNCHANGED <<diagVars, spanState, registry, activeContext, restoreKeys, stack, running, phase, ext, store>>

\* ContextManager.attach of a tracking manager: make `context` active and
\* hand out a fresh restore key remembering what was active before.
TrackingContextManager_attach(m, context) ==
  [token  |-> Len(restoreKeys) + 1,
   active |-> [activeContext EXCEPT ![m] = context],
   keys   |-> Append(restoreKeys, [mgr |-> m, prev |-> activeContext[m]])]

\* NoopContextManager.attach: a key that restores nothing.
NoopContextManager_attach(context) ==
  [token |-> NOOP_TOKEN, active |-> activeContext, keys |-> restoreKeys]

ManagerAttach(m, context) ==
  IF m = NOOP_CONTEXT_MANAGER THEN NoopContextManager_attach(context)
                              ELSE TrackingContextManager_attach(m, context)

\* ContextAPI.attach: delegate to the current manager.  The variant never
\* leaves the no-op manager.
ContextAPI_attach_noop(context) == ManagerAttach(NOOP_CONTEXT_MANAGER, context)

ContextAPI_attach(context) == ManagerAttach(GetContextManager, context)

Attach(ctx) ==
  /\ GetContextManager # NOOP_CONTEXT_MANAGER => Len(restoreKeys) < MaxTokens
  /\ LET r == ContextAPI_attach(ctx) IN
       /\ activeContext' = r.active
       /\ restoreKeys' = r.keys
       /\ lastOp' = Op("attach", ctx, r.token)
  /\ UNCHANGED <<diagVars, spanState, registry, stack, running, phase, ext, store>>

\* ContextManager.detach of a tracking manager: a key of this manager
\* restores the context remembered by its attach; any other key does nothing.
\* Misuse (a key detached twice or out of order) is not detected.
\* The variant leaves the manager without an active context when the key is
\* not the newest one.
TrackingContextManager_detach_strict(m, token) ==
  IF token \in 1..Len(restoreKeys) /\ restoreKeys[token].mgr = m
    THEN IF token = Len(restoreKeys)
           THEN [activeContext EXCEPT ![m] = restoreKeys[token].prev]
           ELSE [activeContext EXCEPT ![m] = None]
    ELSE activeContext

TrackingContextManager_detach(m, token) ==
  IF token \in 1..Len(restoreKeys) /\ restoreKeys[token].mgr = m
    THEN [activeContext EXCEPT ![m] = restoreKeys[token].prev]
    ELSE activeContext

\* NoopContextManager.detach
NoopContextManager_detach(token) == activeContext

ManagerDetach(m, token) ==
  IF m = NOOP_CONTEXT_MANAGER THEN NoopContextManager_detach(token)
                              ELSE TrackingContextManager_detach(m, token)

\* ContextAPI.detach: delegate to the current manager.  The variant keeps
\* delegating to the manager that was registered first.
ContextAPI_detach_cached(token) == ManagerDetach(M1, token)

ContextAPI_detach(token) == ManagerDetach(GetContextManager, token)

Detach(token) ==
  /\ activeContext' = ContextAPI_detach(token)
  /\ lastOp' = Op("detach", token, None)
  /\ UNCHANGED <<diagVars, spanState, registry, restoreKeys, stack, running, phase, ext, store>>

\* ContextAPI.disable: disable() on the current manager (a no-op of
\* NoopContextManager, which SimpleContextManager inherits), then
\* unregisterGlobal.  The variant forgets to unregister.
ContextAPI_disable_keep ==
  [disabled |-> GetContextManager, reg |-> registry]

ContextAPI_disable ==
  [disabled |-> GetContextManager, reg |-> unregisterGlobal(registry, API_NAME)]

Disable ==
  /\ registry' = ContextAPI_disable.reg
  /\ lastOp' = Op("disable", ContextAPI_disable.disabled, None)
  /\ UNCHANGED <<diagVars, spanState, activeContext, restoreKeys, stack, running, phase, ext, store>>

\* ------------------------------------------------------------ scheduling
\* The event loop starts the top-level code of an execution.
StartTask(e) ==
  /\ running = None
  /\ ext[e] = NoExt
  /\ running' = e
  /\ phase' = "task"
  /\ lastOp' = Op("start", None, None)
  /\ UNCHANGED <<diagVars, spanState, registry, activeContext, restoreKeys, stack, ext, store>>

\* The event loop resumes the continuation of a suspended async callback.
Resume(e) ==
  /\ running = None
  /\ ext[e] # NoExt
  /\ running' = e
  /\ phase' = "cont"
  /\ lastOp' = Op("resume", None, None)
  /\ UNCHANGED <<diagVars, spanState, registry, activeContext, restoreKeys, stack, ext, store>>

\* The running task ends; a continuation either suspends again or completes
\* the async callback.
EndTask(again) ==
  /\ running # None
  /\ stack = <<>>
  /\ again => phase = "cont"
  /\ running' = None
  /\ phase' = "idle"
  /\ ext' = IF phase = "cont" /\ ~again THEN [ext EXCEPT ![running] = NoExt]
                                        ELSE ext
  /\ lastOp' = Op("end", None, None)
  /\ UNCHANGED <<diagVars, spanState, registry, activeContext, restoreKeys, stack, store>>

\* ---------------------------------------------------------------- Context
\* Context.getValue(key) of the Context object c
BaseContext_getValue(st, c, key) == st[c][key]

\* The reference by which the ContextAPI and its managers hold the Context
\* object c of the store: ROOT_CONTEXT for the first object, the empty one
\* made at load time.  Deref is its inverse.
ContextRef(c) == IF c = 1 THEN ROOT_CONTEXT ELSE "ctx#" \o ToString(c)

Deref(st, ref) == CHOOSE c \in 1..Len(st) : ContextRef(c) = ref

\* api.context.active().getValue(key)
ActiveGetValue(st, active, key) == BaseContext_getValue(st, Deref(st, active), key)

\* A third variant of setValue also stores the entry in the receiver.
BaseContext_setValue_shared(c, key, value) ==
  [store |-> Append([store EXCEPT ![c][key] = value],
                    [store[c] EXCEPT ![key] = value]),
   ret   |-> Len(store) + 1]

\* Context.setValue(key, value): a new Context holding the receiver's
\* entries and the new one.  The variant overwrites an entry that is already
\* there in place.
BaseContext_setValue_inplace(c, key, value) ==
  IF store[c][key] # Absent
    THEN [store |-> [store EXCEPT ![c][key] = value], ret |-> c]
    ELSE [store |-> Append(store, [store[c] EXCEPT ![key] = value]),
          ret   |-> Len(store) + 1]

\* A second variant starts the new Context from an empty one and so loses
\* the receiver's other entries.
BaseContext_setValue_fresh(c, key, value) ==
  [store |-> Append(store, [k \in ContextKeys |-> IF k = key THEN value ELSE Absent]),
   ret   |-> Len(store) + 1]

BaseContext_setValue(c, key, value) ==
  [store |-> Append(store, [store[c] EXCEPT ![key] = value]),
   ret   |-> Len(store) + 1]

\* Context.deleteValue(key): a new Context holding the receiver's entries
\* but the one for key.  The variant copies the receiver and deletes nothing.
BaseContext_deleteValue_copy(c, key) ==
  [store |-> Append(store, store[c]), ret |-> Len(store) + 1]

BaseContext_deleteValue(c, key) ==
  [store |-> Append(store, [store[c] EXCEPT ![key] = Absent]),
   ret   |-> Len(store) + 1]

SetValue(c, key, value) ==
  /\ Len(store) < MaxObjects
  /\ LET r == BaseContext_setValue(c, key, value) IN
       /\ store' = r.store
       /\ lastOp' = Op("setValue", [recv |-> c, key |-> key, value |-> value], r.ret)
  /\ UNCHANGED <<diagVars, spanState, registry, activeContext, restoreKeys, stack, running, phase, ext>>

DeleteValue(c, key) ==
  /\ Len(store) < MaxObjects
  /\ LET r == BaseContext_deleteValue(c, key) IN
       /\ store' = r.store
       /\ lastOp' = Op("deleteValue", [recv |-> c, key |-> key], r.ret)
  /\ UNCHANGED <<diagVars, spanState, registry, activeContext, restoreKeys, stack, running, phase, ext>>

\* Boolean(value): false for false, null, undefined, 0 and the empty string,
\* true for every other value.
ToBoolean(value) == value \notin {"false", "null", Absent, "0", ""}

\* isInstrumentationSuppressed(context).  The variant asks whether the key
\* has an entry at all.
isInstrumentationSuppressed_present(st, c) ==
  BaseContext_getValue(st, c, SUPPRESS_INSTRUMENTATION_KEY) # Absent

isInstrumentationSuppressed(st, c) ==
  ToBoolean(BaseContext_getValue(st, c, SUPPRESS_INSTRUMENTATION_KEY))

\* suppressInstrumentation(context)
suppressInstrumentation(c) ==
  BaseContext_setValue(c, SUPPRESS_INSTRUMENTATION_KEY, "true")

\* unsuppressInstrumentation(context)
unsuppressInstrumentation(c) ==
  BaseContext_setValue(c, SUPPRESS_INSTRUMENTATION_KEY, "false")

SuppressInstrumentation(c) ==
  /\ Len(store) < MaxObjects
  /\ LET r == suppressInstrumentation(c) IN
       /\ store' = r.store
       /\ lastOp' = Op("suppressInstrumentation", [recv |-> c], r.ret)
  /\ UNCHANGED <<diagVars, spanState, registry, activeContext, restoreKeys, stack, running, phase, ext>>

UnsuppressInstrumentation(c) ==
  /\ Len(store) < MaxObjects
  /\ LET r == unsuppressInstrumentation(c) IN
       /\ store' = r.store
       /\ lastOp' = Op("unsuppressInstrumentation", [recv |-> c], r.ret)
  /\ UNCHANGED <<diagVars, spanState, registry, activeContext, restoreKeys, stack, running, phase, ext>>


\* ------------------------------------------------------------ span wrapper
\* What the callers of withSpan / withActiveSpan pass after the span name.
\* A user callback returns value v, throws v, or returns a promise that
\* settles with v; an exception handler returns or throws.
SpanNames == {"op1"}

FnOutcomes == {"value", "throw", "promise"}

HandlerOutcomes == {"value", "throw"}

UserFn(o, v) == [kind |-> "function", value |-> v, outcome |-> o, role |-> "fn"]

UserHandler(o) ==
  [kind |-> "function", value |-> "eh", outcome |-> o, role |-> "onException"]

\* defaultOnException: span.recordException(e); span.setStatus(ERROR)
defaultOnException ==
  [kind |-> "function", value |-> "default", outcome |-> "value",
   role |-> "onException"]

\* The span options and the parent context a caller supplies.
SpanOptions == [kind |-> "options", id |-> "supplied"]

ContextArg == [kind |-> "context", ref |-> "ctxA"]

\* The defaults of massageParams: {} and api.context.active().
EmptyOptions == [kind |-> "options", id |-> "{}"]

ActiveContextArg == [kind |-> "context", ref |-> ContextAPI_active]

\* The accepted call shapes: (name, fn), (name, options, fn),
\* (name, options, context, fn), (name, options, context, onException, fn).
CallShapes(fn, onException) ==
  {<<fn>>, <<SpanOptions, fn>>, <<SpanOptions, ContextArg, fn>>,
   <<SpanOptions, ContextArg, onException, fn>>}

\* massageParams(arg, arg2, arg3, arg4), argv being the arguments it is
\* called with: it tells the shapes apart by arguments.length, then fills in
\* the options and the context left undefined.
massageParams(argv) ==
  LET n == Len(argv)
      p == IF n = 1
             THEN [opts |-> undefined, ctx |-> undefined,
                   onException |-> defaultOnException, fn |-> argv[1]]
           ELSE IF n = 2
             THEN [opts |-> argv[1], ctx |-> undefined,
                   onException |-> defaultOnException, fn |-> argv[2]]
           ELSE IF n = 3
             THEN [opts |-> argv[1], ctx |-> argv[2],
                   onException |-> defaultOnException, fn |-> argv[3]]
           ELSE [opts |-> argv[1], ctx |-> argv[2],
                 onException |-> argv[3], fn |-> argv[4]]
  IN [p EXCEPT !.opts = IF p.opts = undefined THEN EmptyOptions ELSE p.opts,
               !.ctx = IF p.ctx = undefined THEN ActiveContextArg ELSE p.ctx]

\* The four arguments withSpan / withActiveSpan hand to massageParams:
\* arg2 .. arg5, undefined where the caller passed none.
PassedOn(args) ==
  [i \in 1..4 |-> IF i <= Len(args) THEN args[i] ELSE undefined]

\* The error a call of something that is not a function throws.
TypeError == "TypeError"

Returned(v) == [kind |-> "return", value |-> v]

Thrown(e) == [kind |-> "throw", value |-> e]

\* handleFn(span, onException, fn): the calls made, in order, what the
\* wrapper returns or throws, and whether a promise is left to settle.
handleFn(onException, fn) ==
  LET called == IF fn.kind = "function" THEN <<"fn(span)">> ELSE <<>>
      out    == IF fn.kind = "function" THEN fn.outcome ELSE "throw"
      e      == IF fn.kind = "function" THEN fn.value ELSE TypeError
  IN
  IF out = "value"
    THEN [events |-> Append(called, "span.end()"),
          result |-> Returned(fn.value), pending |-> FALSE]
  ELSE IF out = "promise"
    THEN [events |-> called, result |-> Returned("promise"), pending |-> TRUE]
  ELSE IF onException.kind # "function"
    THEN [events |-> called, result |-> Thrown(TypeError), pending |-> FALSE]
  ELSE LET handled == Append(called,
                        IF onException.role = "fn" THEN "fn(e, span)"
                        ELSE "onException(e, span)")
       IN IF onException.outcome = "throw"
            THEN [events |-> handled, result |-> Thrown(onException.value),
                  pending |-> FALSE]
            ELSE [events |-> Append(handled, "span.end()"),
                  result |-> Thrown(e), pending |-> FALSE]

\* The Context the tracer derives for the span it starts: setSpan(ctx, span).
SpanContext == "ctxSpan"

\* Tracer.startActiveSpan(name, opts, ctx, fn): it starts a span and calls
\* context.with(setSpan(ctx, span), fn, undefined, span).  The frame of that
\* with, and what active() answers while fn runs.
Tracer_startActiveSpan ==
  LET r == ContextAPI_with(SpanContext) IN
    [frame  |-> r.frame,
     inside |-> IF r.frame.mgr = NOOP_CONTEXT_MANAGER
                  THEN NoopContextManager_active
                  ELSE r.active[r.frame.mgr]]

\* Tracer.startSpan(name, opts, ctx): it starts a span and leaves the active
\* context alone.
Tracer_startSpan == [inside |-> ContextAPI_active]

\* SugaredTracer.withSpan / withActiveSpan(name, ...args): massageParams on
\* arg2 .. arg5, a span started, handleFn.  (withActiveSpan runs handleFn in
\* the callback of the tracer's startActiveSpan.)
SugaredTracer_withSpan(args) ==
  LET p == massageParams(PassedOn(args)) IN
    [params |-> p, call |-> handleFn(p.onException, p.fn)]

WithSpan(active, name, args) ==
  /\ LET r == SugaredTracer_withSpan(args) IN
       /\ spanState' = [kind |-> "span", active |-> active, name |-> name,
                        events |-> r.call.events, pending |-> r.call.pending,
                        opts |-> r.params.opts, ctx |-> r.params.ctx,
                        onException |-> r.params.onException,
                        fn |-> r.params.fn, settled |-> undefined,
                        before |-> ContextAPI_active,
                        inside |-> IF active THEN Tracer_startActiveSpan.inside
                                             ELSE Tracer_startSpan.inside]
       /\ lastOp' = Op(IF active THEN "withActiveSpan" ELSE "withSpan",
                       [argc |-> Len(args), fn |-> args[Len(args)],
                        args |-> args],
                       r.call.result)
       /\ activeContext' =
            IF active
              THEN ManagerWithReturn(Tracer_startActiveSpan.frame,
                                     IF r.call.pending THEN "promise"
                                     ELSE IF r.call.result.kind = "throw"
                                       THEN "throw"
                                     ELSE "value")
              ELSE activeContext
  /\ UNCHANGED <<diagVars, registry, restoreKeys, stack, running, phase, ext,
                 store>>

\* The promise the callback returned settles: ret.catch(e => onException(e,
\* span)).finally(span.end).  span.end is handed over without its span;
\* whether it still ends the span depends on the tracer's Span.
SettledPromise(ok, endNeedsThis) ==
  LET caught ==
        IF ok
          THEN [events |-> spanState.events,
                settled |-> [kind |-> "fulfilled", value |-> spanState.fn.value]]
        ELSE IF spanState.onException.kind # "function"
          THEN [events |-> spanState.events,
                settled |-> [kind |-> "rejected", value |-> TypeError]]
        ELSE IF spanState.onException.outcome = "throw"
          THEN [events |-> Append(spanState.events, "onException(e, span)"),
                settled |-> [kind |-> "rejected",
                             value |-> spanState.onException.value]]
        ELSE [events |-> Append(spanState.events, "onException(e, span)"),
              settled |-> [kind |-> "fulfilled", value |-> "undefined"]]
  IN IF endNeedsThis
       THEN [events |-> caught.events,
             settled |-> [kind |-> "rejected", value |-> TypeError]]
       ELSE [events |-> Append(caught.events, "span.end()"),
             settled |-> caught.settled]

Settle(ok, endNeedsThis) ==
  /\ spanState.kind = "span"
  /\ spanState.pending
  /\ LET r == SettledPromise(ok, endNeedsThis) IN
       /\ spanState' = [spanState EXCEPT !.events = r.events,
                                         !.pending = FALSE,
                                         !.settled = r.settled]
       /\ lastOp' = Op("settle", [ok |-> ok, endNeedsThis |-> endNeedsThis],
                       r.settled)
  /\ UNCHANGED <<contextVars, diagVars>>

\* ----------------------------------------------- with, seen by its caller
\* Receivers and argument lists handed to with for fn.
ThisArgs == {"that", "other"}

ArgLists == {<<>>, <<"one">>, <<"one", "two">>}

\* The span handed to the withSpan context helper.
Spans == {"span1"}

\* fn.call(thisArg, ...args): one call of fn, what it observes (its
\* receiver, its arguments, what active() answers) and how it leaves.
fn_call(fn, thisArg, args, active) ==
  [calls  |-> <<[receiver |-> thisArg, args |-> args, active |-> active]>>,
   result |-> IF fn.outcome = "throw" THEN Thrown(fn.value)
                                     ELSE Returned(fn.value)]

\* SimpleContextManager.with(context, fn, thisArg, ...args), from its call to
\* its return: fn is called under `context`, the finally block restores.
SimpleContextManager_withCall(m, context, fn, thisArg, args) ==
  LET w == SimpleContextManager_with(m, context) IN
    [call   |-> fn_call(fn, thisArg, args, w.active[m]),
     active |-> SimpleContextManager_with_finally(w.frame, fn.outcome)]

\* NoopContextManager.with: fn.call(thisArg, ...args), nothing tracked.
NoopContextManager_withCall(context, fn, thisArg, args) ==
  [call   |-> fn_call(fn, thisArg, args, NoopContextManager_active),
   active |-> activeContext]

\* ContextAPI.with: this._getContextManager().with(context, fn, thisArg,
\* ...args).  The variant does not hand the receiver on.
ContextAPI_withCall_nothis(context, fn, thisArg, args) ==
  IF GetContextManager = NOOP_CONTEXT_MANAGER
    THEN NoopContextManager_withCall(context, fn, Absent, args)
    ELSE SimpleContextManager_withCall(GetContextManager, context, fn, Absent,
                                       args)

ContextAPI_withCall(context, fn, thisArg, args) ==
  IF GetContextManager = NOOP_CONTEXT_MANAGER
    THEN NoopContextManager_withCall(context, fn, thisArg, args)
    ELSE SimpleContextManager_withCall(GetContextManager, context, fn, thisArg,
                                       args)

WithCall(context, fn, thisArg, args) ==
  /\ LET r == ContextAPI_withCall(context, fn, thisArg, args) IN
       /\ activeContext' = r.active
       /\ lastOp' = Op("with.call",
                       [context |-> context, fn |-> fn, thisArg |-> thisArg,
                        args |-> args, before |-> ContextAPI_active],
                       r.call)
  /\ UNCHANGED <<diagVars, spanState, registry, restoreKeys, stack, running,
                 phase, ext, store>>

\* setSpan(context, span): a Context that carries the span on top of what
\* `context` holds.  getSpan(context): the span it carries, if any.
setSpan(context, span) == span \o "@" \o context

getSpan(context) ==
  IF \E sp \in Spans, c \in Contexts : context = setSpan(c, sp)
    THEN CHOOSE sp \in Spans : \E c \in Contexts : context = setSpan(c, sp)
    ELSE Absent

\* The context helper withSpan(span, fn, thisArg, ...args):
\* context.with(setSpan(context.active(), span), fn, thisArg, ...args)
withSpan(span, fn, thisArg, args) ==
  ContextAPI_withCall(setSpan(ContextAPI_active, span), fn, thisArg, args)

HelperWithSpan(span, fn, thisArg, args) ==
  /\ LET r == withSpan(span, fn, thisArg, args) IN
       /\ activeContext' = r.active
       /\ lastOp' = Op("withSpan.helper",
                       [span |-> span, fn |-> fn, thisArg |-> thisArg,
                        args |-> args, before |-> ContextAPI_active],
                       r.call)
  /\ UNCHANGED <<diagVars, spanState, registry, restoreKeys, stack, running,
                 phase, ext, store>>

\* --------------------------------------------------------- specifications
\* The registry and the two facades that register in it.
NextRegistry ==
  \/ \E m \in Managers : SetGlobalContextManager(m)
  \/ Disable
  \/ \E l \in LoggerInputs, lv \in LevelInputs : DiagSetLogger(l, lv)
  \/ DiagDisable

\* One execution running synchronous code against the ContextAPI.
NextSync ==
  \/ SetGlobalContextManager(M1)
  \/ Disable
  \/ \E c \in Contexts : With(c)
  \/ \E o \in SyncOutcomes : Return(o)
  \/ \E c \in Contexts, t \in Targets : Bind(c, t)
  \/ \E c \in Contexts : Attach(c)
  \/ \E t \in 0..Len(restoreKeys) : Detach(t)

\* Executions whose with callbacks are async: tasks and continuations
\* interleave on the one JS thread.
NextAsync ==
  \/ \E e \in Execs : StartTask(e)
  \/ \E e \in Execs : Resume(e)
  \/ \E again \in BOOLEAN : EndTask(again)
  \/ running # None /\ SetGlobalContextManager(M1)
  \/ running # None /\ Disable
  \/ running # None /\ \E c \in Contexts : With(c)
  \/ running # None /\ \E o \in Outcomes : Return(o)

\* Callers deriving Contexts from ROOT_CONTEXT.
NextContext ==
  \/ \E c \in 1..Len(store), k \in Keys, v \in Values \cup {Absent} : SetValue(c, k, v)
  \/ \E c \in 1..Len(store), k \in Keys : DeleteValue(c, k)

Next == NextRegistry \/ NextSync \/ NextAsync \/ NextContext

Spec == Init /\ [][Next]_vars

SpecRegistry == Init /\ [][NextRegistry]_vars

SpecSync == Init /\ [][NextSync]_vars

SpecAsync == Init /\ [][NextAsync]_vars

SpecContext == Init /\ [][NextContext]_vars

\* The DiagAPI: loggers set and removed, log calls made.
NextDiag ==
  \/ \E l \in LoggerInputs, lv \in LevelInputs : DiagSetLogger(l, lv)
  \/ \E l \in LoggerInputs : DiagSetLoggerNoLevel(l)
  \/ DiagDisable
  \/ \E f \in diagLoggerFunctions, a \in LogArgs : DiagLog(f, a)

SpecDiag == Init /\ [][NextDiag]_vars

\* The DiagAPI shared by the module copies through the global slot.
NextDiagGlobal ==
  \/ \E c \in Copies : Instance(c)
  \/ \E c \in Copies, l \in LoggerInputs, lv \in LevelInputs :
       CopySetLogger(c, l, lv)
  \/ \E c \in Copies : CopyDisable(c)
  \/ \E c \in Copies, f \in diagLoggerFunctions, a \in LogArgs :
       CopyLog(c, f, a)

SpecDiagGlobal == Init /\ [][NextDiagGlobal]_vars

\* The DiagAPI of diag.ts: loggers and levels set, log calls made.
NextDiagLevel ==
  \/ \E logger \in LoggerInputs : DiagTsSetLogger(logger)
  \/ \E lvl \in LevelInputs : DiagTsSetLogLevel(lvl)
  \/ \E f \in diagLoggerFunctions, a \in LogArgs : DiagTsLog(f, a)

SpecDiagLevel == Init /\ [][NextDiagLevel]_vars

\* with and the withSpan helper seen by their caller, a manager registered
\* or not, a context attached or not.
NextWith ==
  \/ \E m \in Managers : SetGlobalContextManager(m)
  \/ Disable
  \/ \E c \in Contexts : Attach(c)
  \/ \E c \in Contexts, o \in SyncOutcomes, v \in Values, t \in ThisArgs,
        args \in ArgLists : WithCall(c, UserFn(o, v), t, args)
  \/ \E sp \in Spans, o \in SyncOutcomes, v \in Values, t \in ThisArgs,
        args \in ArgLists : HelperWithSpan(sp, UserFn(o, v), t, args)

SpecWith == Init /\ [][NextWith]_vars

\* The span wrapper: calls in every shape, promises settling, with or
\* without a context manager registered, inside or outside with callbacks.
NextSpan ==
  \/ \E m \in Managers : SetGlobalContextManager(m)
  \/ With(ContextArg.ref)
  \/ Return("value")
  \/ \E active \in BOOLEAN, name \in SpanNames, o \in FnOutcomes, v \in Values,
        h \in HandlerOutcomes :
       \E args \in CallShapes(UserFn(o, v), UserHandler(h)) :
         WithSpan(active, name, args)
  \/ \E ok \in BOOLEAN, endNeedsThis \in BOOLEAN : Settle(ok, endNeedsThis)

SpecSpan == Init /\ [][NextSpan]_vars

\* The suppress-instrumentation helpers and the Context operations on their
\* key.
NextSuppress ==
  \/ \E c \in 1..Len(store) : SuppressInstrumentation(c)
  \/ \E c \in 1..Len(store) : UnsuppressInstrumentation(c)
  \/ \E c \in 1..Len(store), v \in SuppressValues :
       SetValue(c, SUPPRESS_INSTRUMENTATION_KEY, v)
  \/ \E c \in 1..Len(store) : DeleteValue(c, SUPPRESS_INSTRUMENTATION_KEY)

SpecSuppress == Init /\ [][NextSuppress]_vars

\* Largest number of Context objects while contexts are derived and made
\* active, ROOT_CONTEXT included.
MaxDerived == 3

\* Contexts derived with setValue / deleteValue and made active with with /
\* attach / detach under a registered manager or none, one with and one
\* attach at a time.
NextDerive ==
  \/ SetGlobalContextManager(M1)
  \/ Disable
  \/ \E c \in 1..Len(store), v \in Values :
       Len(store) < MaxDerived /\ SetValue(c, "k1", v)
  \/ \E c \in 1..Len(store) :
       Len(store) < MaxDerived /\ DeleteValue(c, "k1")
  \/ \E c \in 1..Len(store) : stack = <<>> /\ With(ContextRef(c))
  \/ \E o \in SyncOutcomes : Return(o)
  \/ \E c \in 1..Len(store) : restoreKeys = <<>> /\ Attach(ContextRef(c))
  \/ \E t \in 1..Len(restoreKeys) : Detach(t)

SpecDerive == Init /\ [][NextDerive]_vars

\* Managers registered, torn down and replaced while synchronous code works
\* with the ContextAPI.
NextManagers ==
  \/ \E m \in Managers : SetGlobalContextManager(m)
  \/ Disable
  \/ \E c \in Contexts \ {ROOT_CONTEXT} : stack = <<>> /\ With(c)
  \/ \E o \in SyncOutcomes : Return(o)
  \/ \E t \in Targets : Bind("ctxA", t)
  \/ \E c \in Contexts \ {ROOT_CONTEXT} : Attach(c)
  \/ \E t \in 0..Len(restoreKeys) : Detach(t)

SpecManagers == Init /\ [][NextManagers]_vars

\* with callbacks nested in one another, the innermost with seen from its
\* call to its return.
NextNest ==
  \/ SetGlobalContextManager(M1)
  \/ \E c \in Contexts : With(c)
  \/ \E o \in SyncOutcomes : Return(o)
  \/ \E c \in Contexts, o \in SyncOutcomes, v \in Values :
       WithCall(c, UserFn(o, v), "that", <<"one">>)

SpecNest == Init /\ [][NextNest]_vars

\* ------------------------------------------------------------------ properties
NoManager == getGlobal(registry, API_NAME) = undefined

Tracking == GetContextManager # NOOP_CONTEXT_MANAGER

\* C1: while a context manager is registered, setGlobalContextManager of
\* another one (no override) answers false and leaves the registered manager
\* in place: getGlobal still answers it and the ContextAPI still delegates
\* to it.
C1_ConflictKeepsFirst ==
  [][ (lastOp'.op = "setGlobalContextManager" /\ ~NoManager)
        => /\ lastOp'.ret = FALSE
           /\ getGlobal(registry', API_NAME) = getGlobal(registry, API_NAME)
           /\ GetContextManager' = getGlobal(registry, API_NAME) ]_vars

\* M2 was turned down while M1 stays registered (or the other way round).
C1_Witness ==
  /\ lastOp.op = "setGlobalContextManager"
  /\ lastOp.ret = FALSE
  /\ ~NoManager
  /\ lastOp.arg # getGlobal(registry, API_NAME)

\* C2: a registration with override on an occupied slot succeeds and
\* replaces the entry: after DiagAPI.setLogger on a slot holding a filtered
\* logger, getGlobal answers the new filtered logger.
C2_OverrideReplaces ==
  [][ (lastOp'.op = "diag.setLogger" /\ getGlobal(registry, DIAG_NAME) # undefined)
        => /\ lastOp'.ret = TRUE
           /\ getGlobal(registry', DIAG_NAME) =
                createLogLevelDiagLogger(
                  lastOp'.arg.logLevel,
                  DiagAPI_effectiveLogger(lastOp'.arg.logger)) ]_vars

\* The slot held a filtered logger around L1 and now holds one around L2.
C2_Witness ==
  /\ lastOp.op = "diag.setLogger"
  /\ lastOp.arg.prior # undefined
  /\ lastOp.arg.prior.logger = L1
  /\ lastOp.arg.logger = L2
  /\ getGlobal(registry, DIAG_NAME).logger = L2
  /\ getGlobal(registry, DIAG_NAME) # lastOp.arg.prior

\* C3: with no context manager registered, active() is ROOT_CONTEXT; with
\* calls fn once (one more callback on the stack) and neither entering nor
\* leaving it changes any tracked context, so active() stays ROOT_CONTEXT
\* inside fn; bind answers its target.
C3_NoopFallback ==
  /\ [](NoManager => ContextAPI_active = ROOT_CONTEXT)
  /\ [](NoManager /\ lastOp.op = "bind" => lastOp.ret = lastOp.arg)
  /\ [][ (NoManager /\ lastOp'.op = "with")
           => /\ Len(stack') = Len(stack) + 1
              /\ Top'.ctx = lastOp'.arg
              /\ activeContext' = activeContext
              /\ ContextAPI_active' = ROOT_CONTEXT ]_vars
  /\ [][ (lastOp'.op = "return" /\ Top.mgr = NOOP_CONTEXT_MANAGER)
           => /\ Len(stack') = Len(stack) - 1
              /\ activeContext' = activeContext ]_vars

\* Inside the callback of with(ctxA, fn), no manager registered.
C3_Witness ==
  /\ NoManager
  /\ lastOp.op = "with"
  /\ Top.mgr = NOOP_CONTEXT_MANAGER
  /\ Top.ctx = "ctxA"
  /\ ContextAPI_active = ROOT_CONTEXT

\* C4: disable() calls disable() on the current manager and unregisters it;
\* from then on active() is ROOT_CONTEXT and with, bind, attach and detach
\* are those of the no-op manager, until setGlobalContextManager registers a
\* manager.
C4_DisableReverts ==
  /\ [][ lastOp'.op = "disable"
           => /\ lastOp'.arg = GetContextManager
              /\ NoManager'
              /\ GetContextManager' = NOOP_CONTEXT_MANAGER
              /\ ContextAPI_active' = ROOT_CONTEXT ]_vars
  /\ [][ (NoManager /\ ~NoManager') => lastOp'.op = "setGlobalContextManager" ]_vars
  /\ [][ (NoManager /\ lastOp'.op \in {"with", "bind", "attach", "detach"})
           => /\ activeContext' = activeContext
              /\ restoreKeys' = restoreKeys
              /\ ContextAPI_active' = ROOT_CONTEXT
              /\ lastOp'.op = "attach" => lastOp'.ret = NOOP_TOKEN
              /\ lastOp'.op = "bind" => lastOp'.ret = lastOp'.arg ]_vars

\* M1 was disabled while it had a context other than ROOT_CONTEXT active.
C4_Witness ==
  /\ lastOp.op = "disable"
  /\ lastOp.arg = M1
  /\ activeContext[M1] # ROOT_CONTEXT
  /\ ContextAPI_active = ROOT_CONTEXT

\* All callbacks on the stack were entered through the registered manager.
FramesOfCurrent == \A i \in 1..Len(stack) : stack[i].mgr = GetContextManager

\* C5: with a tracking manager registered, with makes its context active
\* and remembers the one active before; when a callback leaves, exactly that
\* one is active again; so with callbacks nest: each callback was entered
\* under the context of the one around it, the innermost one's context is
\* active, and after the outermost one the original context is back.
C5_WithIsLIFO ==
  /\ [][ (lastOp'.op = "with" /\ Tracking)
           => /\ ContextAPI_active' = lastOp'.arg
              /\ Top'.prev = ContextAPI_active ]_vars
  /\ [][ (lastOp'.op = "return" /\ Tracking /\ Top.mgr = GetContextManager)
           => ContextAPI_active' = Top.prev ]_vars
  /\ []( (Tracking /\ FramesOfCurrent /\ restoreKeys = <<>>)
           => /\ \A i \in 1..Len(stack) :
                   stack[i].ctx = IF i < Len(stack) THEN stack[i + 1].prev
                                                    ELSE ContextAPI_active
              /\ stack # <<>> => stack[1].prev = ROOT_CONTEXT
              /\ stack = <<>> => ContextAPI_active = ROOT_CONTEXT )

\* The inner with(ctxB, ..) of with(ctxA, ..) has returned: ctxA is active.
C5_Witness ==
  /\ lastOp.op = "return"
  /\ Tracking
  /\ FramesOfCurrent
  /\ restoreKeys = <<>>
  /\ Len(stack) = 1
  /\ Top.ctx = "ctxA"
  /\ ContextAPI_active = "ctxA"

\* The running continuation belongs to a with entered through the manager
\* that is still registered.
InOwnExtent ==
  /\ running # None
  /\ phase = "cont"
  /\ Tracking
  /\ ext[running].mgr = GetContextManager

BothInFlight == \A e \in Execs : ext[e] # NoExt /\ ext[e].mgr = GetContextManager

OwnKey(t) == t \in 1..Len(restoreKeys) /\ restoreKeys[t].mgr = GetContextManager

C10_ContextImmutable ==
  [][ lastOp'.op \in {"setValue", "deleteValue"}
        => /\ \A c \in 1..Len(store), k \in Keys :
                BaseContext_getValue(store', c, k) = BaseContext_getValue(store, c, k)
           /\ lastOp'.ret \notin 1..Len(store)
           /\ lastOp'.ret \in 1..Len(store') ]_vars

\* setValue(k, v) on a receiver that already holds another value under k.
C10_Witness ==
  /\ lastOp.op = "setValue"
  /\ lastOp.arg.recv # 1
  /\ BaseContext_getValue(store, lastOp.arg.recv, lastOp.arg.key) = "v1"
  /\ lastOp.arg.value = "v2"
  /\ BaseContext_getValue(store, lastOp.ret, lastOp.arg.key) = "v2"

\* C11: the Context answered by c.setValue(k, v) holds v under k and, under
\* every other key, what c holds under it; the empty ROOT_CONTEXT answers
\* the absent marker for every key, and every getValue answers a value or
\* the absent marker.
C11_SetThenGet ==
  /\ [][ lastOp'.op = "setValue"
           => /\ BaseContext_getValue(store', lastOp'.ret, lastOp'.arg.key)
                   = lastOp'.arg.value
              /\ \A k2 \in Keys \ {lastOp'.arg.key} :
                   BaseContext_getValue(store', lastOp'.ret, k2)
                     = BaseContext_getValue(store, lastOp'.arg.recv, k2) ]_vars
  /\ [](\A k \in Keys : BaseContext_getValue(store, 1, k) = Absent)
  /\ [](\A c \in 1..Len(store), k \in Keys :
          BaseContext_getValue(store, c, k) \in Values \cup {Absent})

\* setValue(k1, v1) on a Context holding v2 under k2 and nothing under k1.
C11_Witness ==
  /\ lastOp.op = "setValue"
  /\ lastOp.arg.key = "k1"
  /\ lastOp.arg.value = "v1"
  /\ BaseContext_getValue(store, lastOp.arg.recv, "k1") = Absent
  /\ BaseContext_getValue(store, lastOp.arg.recv, "k2") = "v2"
  /\ BaseContext_getValue(store, lastOp.ret, "k1") = "v1"
  /\ BaseContext_getValue(store, lastOp.ret, "k2") = "v2"

\* C12: the Context answered by c.deleteValue(k) holds nothing under k,
\* whether c held something under k or not, and under every other key what
\* c holds under it.
C12_DeleteThenGet ==
  [][ lastOp'.op = "deleteValue"
        => /\ BaseContext_getValue(store', lastOp'.ret, lastOp'.arg.key) = Absent
           /\ \A k2 \in Keys \ {lastOp'.arg.key} :
                BaseContext_getValue(store', lastOp'.ret, k2)
                  = BaseContext_getValue(store, lastOp'.arg.recv, k2) ]_vars

\* deleteValue(k1) on a Context holding v1 under k1 and v2 under k2.
C12_Witness ==
  /\ lastOp.op = "deleteValue"
  /\ lastOp.arg.key = "k1"
  /\ BaseContext_getValue(store, lastOp.arg.recv, "k1") = "v1"
  /\ BaseContext_getValue(store, lastOp.arg.recv, "k2") = "v2"
  /\ BaseContext_getValue(store, lastOp.ret, "k1") = Absent
  /\ BaseContext_getValue(store, lastOp.ret, "k2") = "v2"

\* The logger registered by DiagAPI.setLogger, when there is one.
Registered == getGlobal(registry, DIAG_NAME)

\* What a log call does when a logger filtering at level maxLevel wraps
\* application logger L: one call of the same method with the same
\* arguments when maxLevel >= the method's severity, nothing otherwise.
Filtered(maxLevel, L, funcName, args) ==
  [calls |-> IF maxLevel >= FuncLevel[funcName]
               THEN <<Call(L, funcName, args)>> ELSE <<>>,
   done  |-> TRUE]

\* C13: after setLogger(L, maxLevel), a call of the DiagAPI method of
\* severity s calls the same method of L once with the same arguments when
\* maxLevel >= s and calls nothing otherwise (at WARN: error and warn reach
\* L, info does not); a log call does exactly that.
C13_LevelFiltering ==
  /\ []((lastOp.op = "diag.setLogger" /\ lastOp.arg.logger \in {L1, L2})
          => \A f \in diagLoggerFunctions, a \in LogArgs :
               DiagAPI_logProxy(f, a)
                 = Filtered(lastOp.arg.logLevel, lastOp.arg.logger, f, a))
  /\ [][ (/\ lastOp'.op = "diag.log"
          /\ Registered # undefined
          /\ Registered.kind = "LogLevelDiagLogger"
          /\ Registered.logger \in {L1, L2})
           => lastOp'.ret = Filtered(Registered.maxLevel, Registered.logger,
                                     lastOp'.arg.funcName, lastOp'.arg.args) ]_vars

\* warn("msg1") with L1 registered at WARN reaches L1.warn("msg1").
C13_Witness ==
  /\ lastOp.op = "diag.log"
  /\ lastOp.arg.funcName = "warn"
  /\ Registered # undefined
  /\ Registered.kind = "LogLevelDiagLogger"
  /\ Registered.maxLevel = DiagLogLevel.WARN
  /\ Registered.logger = L1
  /\ lastOp.ret.calls = <<Call(L1, "warn", "msg1")>>

\* A log call through logger lg of every method with every argument list
\* does what the same call through logger lg2 does.
SameBehaviour(lg, lg2) ==
  \A f \in diagLoggerFunctions, a \in LogArgs :
    DiagLogger_call(lg, f, a, MaxChain) = DiagLogger_call(lg2, f, a, MaxChain)

\* C14: after setLogger(L, level) with level below NONE the DiagAPI behaves
\* as after setLogger(L, NONE) and every method drops its call; with level
\* above ALL it behaves as after setLogger(L, ALL) and every method
\* forwards its call to L; a logger filtering at NONE never reaches the
\* logger it wraps.
C14_LevelClamping ==
  /\ []((/\ lastOp.op = "diag.setLogger"
         /\ lastOp.arg.logger \in {L1, L2}
         /\ lastOp.arg.logLevel < DiagLogLevel.NONE)
          => /\ SameBehaviour(DiagAPI_getLogger,
                   [kind |-> "LogLevelDiagLogger",
                    maxLevel |-> DiagLogLevel.NONE, logger |-> lastOp.arg.logger])
             /\ \A f \in diagLoggerFunctions, a \in LogArgs :
                  DiagAPI_logProxy(f, a) = Dropped)
  /\ []((/\ lastOp.op = "diag.setLogger"
         /\ lastOp.arg.logger \in {L1, L2}
         /\ lastOp.arg.logLevel > DiagLogLevel.ALL)
          => /\ SameBehaviour(DiagAPI_getLogger,
                   [kind |-> "LogLevelDiagLogger",
                    maxLevel |-> DiagLogLevel.ALL, logger |-> lastOp.arg.logger])
             /\ \A f \in diagLoggerFunctions, a \in LogArgs :
                  DiagAPI_logProxy(f, a).calls = <<Call(lastOp.arg.logger, f, a)>>)
  /\ []((/\ lastOp.op = "diag.log"
         /\ Registered # undefined
         /\ Registered.kind = "LogLevelDiagLogger"
         /\ Registered.maxLevel = DiagLogLevel.NONE)
          => lastOp.ret = Dropped)

\* After setLogger(L1, NONE - 1) the registered logger filters at NONE and
\* error("msg1") is dropped.
C14_Witness ==
  /\ lastOp.op = "diag.setLogger"
  /\ lastOp.arg.logger = L1
  /\ lastOp.arg.logLevel = DiagLogLevel.NONE - 1
  /\ Registered # undefined
  /\ Registered.kind = "LogLevelDiagLogger"
  /\ Registered.maxLevel = DiagLogLevel.NONE
  /\ DiagAPI_logProxy("error", "msg1") = Dropped

\* C15: while no logger is registered, and after setLogger was called
\* without a logger, every DiagAPI method with any arguments returns having
\* called no logger of the application, and so does every method of the
\* logger getLogger answers.
C15_NoLoggerIsNoop ==
  /\ []((\/ Registered = undefined
         \/ lastOp.op = "diag.setLogger" /\ lastOp.arg.logger.kind = "omitted")
          => \A f \in diagLoggerFunctions, a \in LogArgs :
               /\ DiagAPI_logProxy(f, a) = Dropped
               /\ DiagLogger_call(DiagAPI_getLogger, f, a, MaxChain) = Dropped)
  /\ [][ (lastOp'.op = "diag.log" /\ Registered = undefined)
           => lastOp'.ret = Dropped /\ registry' = registry ]_vars

\* A log call at the start, before any logger was set.
C15_Witness ==
  /\ lastOp.op = "diag.log"
  /\ lastOp.arg.funcName = "error"
  /\ Registered = undefined
  /\ lastOp.ret = Dropped

\* C16: disable removes the registered logger, whatever setLogger calls
\* came before; from then on, until setLogger is called again, no logger is
\* registered and every log call returns having called no logger.
C16_DiagDisable ==
  /\ [][ lastOp'.op = "diag.disable"
           => /\ Registered' = undefined
              /\ \A f \in diagLoggerFunctions, a \in LogArgs :
                   DiagAPI_logProxy(f, a)' = Dropped ]_vars
  /\ [][ (Registered = undefined /\ Registered' # undefined)
           => lastOp'.op = "diag.setLogger" ]_vars
  /\ [][ (lastOp.op \in {"diag.disable", "diag.log"} /\ Registered = undefined
          /\ lastOp'.op = "diag.log")
           => lastOp'.ret = Dropped /\ Registered' = undefined ]_vars

\* disable while L2 was registered at ALL.
C16_Witness ==
  /\ lastOp.op = "diag.disable"
  /\ lastOp.arg.prior # undefined
  /\ lastOp.arg.prior.kind = "LogLevelDiagLogger"
  /\ lastOp.arg.prior.logger = L2
  /\ lastOp.arg.prior.maxLevel = DiagLogLevel.ALL
  /\ Registered = undefined
  /\ DiagAPI_logProxy("error", "msg1") = Dropped

\* C17: every log call returns (its chain of delegations is finite);
\* setLogger(diag) registers a filter around the logger derived from the one
\* registered before, never around the DiagAPI, and the log calls that pass
\* the new level reach the logger the previous one wrapped.
C17_SelfReferenceGuard ==
  /\ [](\A f \in diagLoggerFunctions, a \in LogArgs : DiagAPI_logProxy(f, a).done)
  /\ [][ (lastOp'.op = "diag.setLogger" /\ lastOp'.arg.logger.kind = "self")
           => /\ Registered'.kind = "LogLevelDiagLogger"
              /\ Registered'.logger = getChild(DiagAPI_getLogger)
              /\ Registered'.logger.kind \in {"DiagLogger", "NoopDiagLogger"} ]_vars
  /\ []((/\ lastOp.op = "diag.setLogger"
         /\ lastOp.arg.logger.kind = "self"
         /\ lastOp.arg.prior # undefined
         /\ lastOp.arg.prior.logger \in {L1, L2})
          => \A f \in diagLoggerFunctions, a \in LogArgs :
               DiagAPI_logProxy(f, a)
                 = Filtered(lastOp.arg.logLevel, lastOp.arg.prior.logger, f, a))

\* setLogger(diag, INFO) while L1 was registered at WARN: info("msg1") now
\* reaches L1.
C17_Witness ==
  /\ lastOp.op = "diag.setLogger"
  /\ lastOp.arg.logger.kind = "self"
  /\ lastOp.arg.logLevel = DiagLogLevel.INFO
  /\ lastOp.arg.prior # undefined
  /\ lastOp.arg.prior.logger = L1
  /\ lastOp.arg.prior.maxLevel = DiagLogLevel.WARN
  /\ DiagAPI_logProxy("info", "msg1") = [calls |-> <<Call(L1, "info", "msg1")>>, done |-> TRUE]

\* C18: DiagAPI.instance() called by a module copy while the global slot
\* holds a getter leaves the slot as it is and answers the DiagAPI the
\* getter was made for when the copy's compatibility version is the
\* getter's, and otherwise the getter's private noopDiagApi, whose log
\* methods reach no logger and whose setLogger and disable change nothing.
C18_VersionGatedSlot ==
  [][ (lastOp'.op = "diag.instance" /\ globalDiag # undefined)
        => LET c == lastOp'.arg.copy
               inst == lastOp'.ret
           IN /\ globalDiag' = globalDiag
              /\ held'[c] = inst
              /\ CopyVersion[c] = globalDiag.version
                   => inst = globalDiag.instance /\ inst.kind = "DiagAPI"
              /\ CopyVersion[c] # globalDiag.version
                   => /\ inst = globalDiag.fallback
                      /\ inst.kind = "noopDiagApi"
                      /\ \A f \in diagLoggerFunctions, a \in LogArgs :
                           Instance_logProxy(inst, f, a) = Dropped
                      /\ \A l \in LoggerInputs, lv \in LevelInputs :
                           Instance_setLogger(inst, l, lv) = filteredLogger
                      /\ Instance_disable(inst) = filteredLogger ]_vars

\* Copy C, of version 2, calls instance() while the slot holds the getter of
\* copy A, of version 1, whose DiagAPI has L1 set.
C18_Witness ==
  /\ lastOp.op = "diag.instance"
  /\ lastOp.arg.copy = "C"
  /\ lastOp.arg.slot # undefined
  /\ lastOp.arg.slot.instance = DiagAPIOf("A")
  /\ lastOp.ret = noopDiagApi("A")
  /\ filteredLogger["A"] # undefined
  /\ filteredLogger["A"].logger = L1
  /\ held["A"] = DiagAPIOf("A")

\* C19: once the slot holds a getter it is never replaced; every module
\* copy that holds a DiagAPI holds the one of the slot; after setLogger(L,
\* level) through one such copy, a log call through any such copy does what
\* the filter at that level around L does, and a log call through a copy is
\* a log call of the DiagAPI of the slot.
C19_OneSharedSink ==
  /\ [][ globalDiag # undefined => globalDiag' = globalDiag ]_vars
  /\ [](\A c \in Copies :
          held[c].kind = "DiagAPI"
            => globalDiag # undefined /\ held[c] = globalDiag.instance)
  /\ []((/\ lastOp.op = "diag.copy.setLogger"
         /\ held[lastOp.arg.copy].kind = "DiagAPI"
         /\ lastOp.arg.logger \in {L1, L2})
          => \A c \in Copies :
               held[c].kind = "DiagAPI"
                 => \A f \in diagLoggerFunctions, a \in LogArgs :
                      Instance_logProxy(held[c], f, a)
                        = Filtered(lastOp.arg.logLevel, lastOp.arg.logger, f, a))
  /\ [][ (lastOp'.op = "diag.copy.log" /\ held[lastOp'.arg.copy].kind = "DiagAPI")
           => lastOp'.ret = Instance_logProxy(globalDiag.instance,
                                              lastOp'.arg.funcName, lastOp'.arg.args) ]_vars

\* setLogger(L1, ALL) through copy A; copy B holds the same DiagAPI and its
\* error("msg1") reaches L1.
C19_Witness ==
  /\ lastOp.op = "diag.copy.setLogger"
  /\ lastOp.arg.copy = "A"
  /\ lastOp.arg.logger = L1
  /\ lastOp.arg.logLevel = DiagLogLevel.ALL
  /\ held["A"].kind = "DiagAPI"
  /\ held["B"] = held["A"]
  /\ Instance_logProxy(held["B"], "error", "msg1").calls = <<Call(L1, "error", "msg1")>>

\* C20: when the callback passed to withSpan / withActiveSpan returns an
\* ordinary value v, the callback is called with the span, then span.end()
\* is called, once, no exception handler is called, and the wrapper returns
\* v.
C20_SyncReturnEndsSpanOnce ==
  (/\ lastOp.op \in {"withSpan", "withActiveSpan"}
   /\ lastOp.arg.fn.outcome = "value")
    => /\ spanState.events = <<"fn(span)", "span.end()">>
       /\ lastOp.ret = Returned(lastOp.arg.fn.value)

\* The exception handler a span wrapper call configures: the one passed in
\* the five-argument shape, the default handler otherwise.
ConfiguredHandler(args) ==
  IF Len(args) = 4 THEN args[3] ELSE defaultOnException

\* How often the span wrapper made the call `what`.
Times(what) == Len(SelectSeq(spanState.events, LAMBDA x : x = what))

SpanCall == lastOp.op \in {"withSpan", "withActiveSpan"}

\* C21: when the callback handed to withSpan / withActiveSpan throws e (and
\* the configured exception handler returns), the handler ran exactly once
\* and before span.end(), span.end() ran exactly once, and the wrapper
\* throws the same e.
C21_SyncThrowHandledOnce ==
  (/\ SpanCall
   /\ lastOp.arg.fn.outcome = "throw"
   /\ ConfiguredHandler(lastOp.arg.args).outcome = "value")
    => /\ spanState.onException = ConfiguredHandler(lastOp.arg.args)
       /\ spanState.events =
            <<"fn(span)", "onException(e, span)", "span.end()">>
       /\ lastOp.ret = Thrown(lastOp.arg.fn.value)

\* C22: when the promise the callback returned rejects with e (the handler
\* returns, the span ends without needing its receiver), span.end() was not
\* called before the settlement, the handler ran before span.end(), and the
\* promise the wrapper returned rejects with the same e.
C22_AsyncFailureRejectsWithSame ==
  /\ (spanState.kind = "span" /\ spanState.pending) => Times("span.end()") = 0
  /\ (/\ lastOp.op = "settle"
      /\ ~lastOp.arg.ok
      /\ ~lastOp.arg.endNeedsThis
      /\ spanState.onException.outcome = "value")
       => /\ spanState.events =
               <<"fn(span)", "onException(e, span)", "span.end()">>
          /\ spanState.settled =
               [kind |-> "rejected", value |-> spanState.fn.value]

\* C23: when the callback returns a promise, the wrapper hands a promise
\* back without ending the span; when that promise fulfils with v, the
\* handler was never called, span.end() was called exactly once, after the
\* settlement, and the wrapper's promise fulfils with v.
C23_AsyncSuccessEndsAfterSettlement ==
  /\ (SpanCall /\ lastOp.arg.fn.outcome = "promise")
       => /\ spanState.events = <<"fn(span)">>
          /\ spanState.pending
          /\ lastOp.ret = Returned("promise")
  /\ (lastOp.op = "settle" /\ lastOp.arg.ok)
       => /\ spanState.events = <<"fn(span)", "span.end()">>
          /\ spanState.settled =
               [kind |-> "fulfilled", value |-> spanState.fn.value]

\* C24: in every call shape the user's callback is the function called,
\* exactly once and with the span; the options, parent context and handler
\* supplied are the ones used, and the ones left out are {}, the context
\* active at the call and defaultOnException.
C24_EveryShapeCallsFn ==
  SpanCall =>
    LET args == lastOp.arg.args
        n    == Len(args)
    IN /\ spanState.fn = args[n]
       /\ Times("fn(span)") = 1
       /\ Times("fn(e, span)") = 0
       /\ spanState.onException = ConfiguredHandler(args)
       /\ spanState.opts = IF n >= 2 THEN args[1] ELSE EmptyOptions
       /\ spanState.ctx = IF n >= 3 THEN args[2]
                          ELSE [kind |-> "context", ref |-> spanState.before]

WithCalled == lastOp.op \in {"with.call", "withSpan.helper"}

\* What fn was given and answered in the call of with or of the helper
\* made last: called once with the receiver and the arguments handed in,
\* its return value or its exception handed back.
ForwardedOnce ==
  /\ Len(lastOp.ret.calls) = 1
  /\ lastOp.ret.calls[1].receiver = lastOp.arg.thisArg
  /\ lastOp.ret.calls[1].args = lastOp.arg.args
  /\ lastOp.ret.result = IF lastOp.arg.fn.outcome = "throw"
                           THEN Thrown(lastOp.arg.fn.value)
                           ELSE Returned(lastOp.arg.fn.value)

\* C26 as stated: with (and the withSpan helper) calls fn once with the
\* receiver and the arguments given and hands its return value back, and
\* during the call active() is the context supplied (for the helper,
\* getSpan(active()) is the span supplied).
C26_Original_WithForwards ==
  WithCalled
    => /\ ForwardedOnce
       /\ lastOp.op = "with.call"
            => lastOp.ret.calls[1].active = lastOp.arg.context
       /\ lastOp.op = "withSpan.helper"
            => getSpan(lastOp.ret.calls[1].active) = lastOp.arg.span

\* C26: with (and the withSpan helper) calls fn once with the receiver and
\* the arguments given and hands its return value back; with a
\* context-tracking manager registered active() is the context supplied
\* during the call (for the helper, getSpan(active()) is the span supplied),
\* with none registered it is ROOT_CONTEXT; the context active before the
\* call is active after it.
C26_WithForwardsTracked ==
  WithCalled
    => /\ ForwardedOnce
       /\ (lastOp.op = "with.call" /\ Tracking)
            => lastOp.ret.calls[1].active = lastOp.arg.context
       /\ (lastOp.op = "withSpan.helper" /\ Tracking)
            => /\ getSpan(lastOp.ret.calls[1].active) = lastOp.arg.span
               /\ lastOp.ret.calls[1].active =
                    setSpan(lastOp.arg.before, lastOp.arg.span)
       /\ ~Tracking => lastOp.ret.calls[1].active = ROOT_CONTEXT
       /\ ContextAPI_active = lastOp.arg.before

C26_Witness ==
  /\ lastOp.op = "withSpan.helper"
  /\ Tracking
  /\ lastOp.arg.before = "ctxA"
  /\ lastOp.arg.thisArg = "that"
  /\ lastOp.arg.args = <<"one", "two">>
  /\ lastOp.arg.fn.outcome = "value"
  /\ lastOp.ret.calls[1].receiver = "that"
  /\ getSpan(lastOp.ret.calls[1].active) = "span1"
  /\ lastOp.ret.result = Returned(lastOp.arg.fn.value)

\* C27: setLogger hands back the logger that was registered immediately
\* before the call (the filtered logger, or the logger it wraps), the no-op
\* logger when there was none.
C27_SetLoggerReturnsPrevious ==
  lastOp.op = "diag.copy.setLogger"
    => lastOp.ret \in {lastOp.arg.prior, getChild(lastOp.arg.prior)}

\* C28: getLogger answers the logger that is configured, and the DiagAPI
\* itself while none is configured.
C28_GetLoggerAnswersSelfWhenNone ==
  diag_getLogger(registry) =
    IF getGlobal(registry, DIAG_LOGGER) = undefined
      THEN [kind |-> "self"]
      ELSE getGlobal(registry, DIAG_LOGGER)

\* What a log call does when application logger L is behind a filter at
\* INFO: error, warn and info call the same method of L once with the same
\* arguments, debug and verbose call nothing.
AtInfo(L, funcName, args) ==
  [calls |-> IF funcName \in {"error", "warn", "info"}
               THEN <<Call(L, funcName, args)>> ELSE <<>>,
   done  |-> TRUE]

\* C29: after setLogger(L) with the level left out, error, warn and info
\* calls reach L and debug and verbose calls do not; a log call made next
\* does exactly that.
C29_DefaultLevelIsInfo ==
  /\ []((/\ lastOp.op = "diag.setLogger"
         /\ lastOp.arg.argc = 1
         /\ lastOp.arg.logger \in {L1, L2})
          => \A f \in diagLoggerFunctions, a \in LogArgs :
               DiagAPI_logProxy(f, a) = AtInfo(lastOp.arg.logger, f, a))
  /\ [][ (/\ lastOp.op = "diag.setLogger"
          /\ lastOp.arg.argc = 1
          /\ lastOp.arg.logger \in {L1, L2}
          /\ lastOp'.op = "diag.log")
           => lastOp'.ret = AtInfo(lastOp.arg.logger, lastOp'.arg.funcName,
                                   lastOp'.arg.args) ]_vars

\* setLogger(L1) replacing L2 registered at ALL: info reaches L1, debug is
\* dropped.
C29_Witness ==
  /\ lastOp.op = "diag.setLogger"
  /\ lastOp.arg.argc = 1
  /\ lastOp.arg.logger = L1
  /\ lastOp.arg.prior # undefined
  /\ lastOp.arg.prior.kind = "LogLevelDiagLogger"
  /\ lastOp.arg.prior.maxLevel = DiagLogLevel.ALL
  /\ lastOp.arg.prior.logger = L2
  /\ DiagAPI_logProxy("info", "msg1").calls = <<Call(L1, "info", "msg1")>>
  /\ DiagAPI_logProxy("debug", "msg1") = Dropped

\* setLogger(L, level) was called last, for an application logger L, while
\* the other application logger was the registered one.
ReplacedOther ==
  /\ lastOp.op = "diag.setLogger"
  /\ lastOp.arg.logger \in {L1, L2}
  /\ lastOp.arg.prior # undefined
  /\ lastOp.arg.prior.kind = "LogLevelDiagLogger"
  /\ lastOp.arg.prior.logger \in {L1, L2} \ {lastOp.arg.logger}

\* C30: after setLogger(L1, l1) followed by setLogger(L2, l2), a log call
\* that passes level l2 calls L2 once and a call that does not calls
\* nothing; no log call reaches L1, in the log calls that follow either: a
\* log call changes nothing of what is registered and calls no logger but
\* the one registered last.
C30_LastLoggerWins ==
  /\ [](ReplacedOther
          => \A f \in diagLoggerFunctions, a \in LogArgs :
               /\ DiagAPI_logProxy(f, a)
                    = Filtered(lastOp.arg.logLevel, lastOp.arg.logger, f, a)
               /\ \A i \in 1..Len(DiagAPI_logProxy(f, a).calls) :
                    DiagAPI_logProxy(f, a).calls[i].logger
                      # lastOp.arg.prior.logger)
  /\ [][ lastOp'.op = "diag.log"
           => /\ registry' = registry
              /\ \A i \in 1..Len(lastOp'.ret.calls) :
                   /\ Registered # undefined
                   /\ Registered.kind = "LogLevelDiagLogger"
                   /\ lastOp'.ret.calls[i].logger = Registered.logger ]_vars
  /\ [][ (ReplacedOther /\ lastOp'.op = "diag.log")
           => lastOp'.ret = Filtered(lastOp.arg.logLevel, lastOp.arg.logger,
                                     lastOp'.arg.funcName, lastOp'.arg.args) ]_vars

\* setLogger(L2, WARN) replacing L1 registered at ALL: error reaches L2
\* only, info reaches no logger.
C30_Witness ==
  /\ ReplacedOther
  /\ lastOp.arg.argc = 2
  /\ lastOp.arg.logger = L2
  /\ lastOp.arg.logLevel = DiagLogLevel.WARN
  /\ lastOp.arg.prior.maxLevel = DiagLogLevel.ALL
  /\ DiagAPI_logProxy("error", "msg1").calls = <<Call(L2, "error", "msg1")>>
  /\ DiagAPI_logProxy("info", "msg1") = Dropped

\* C31: isInstrumentationSuppressed(ctx) is true exactly when ctx holds a
\* truthy value under the suppress-instrumentation key: true for the Context
\* answered by suppressInstrumentation(c), false for the one answered by
\* unsuppressInstrumentation(c), false when the key has no entry or holds
\* null or undefined; both helpers answer a new Context and leave c and
\* every other existing Context as they were.
C31_SuppressionFlag ==
  /\ [][ lastOp'.op \in {"suppressInstrumentation", "unsuppressInstrumentation"}
           => /\ isInstrumentationSuppressed(store', lastOp'.ret)
                   = (lastOp'.op = "suppressInstrumentation")
              /\ lastOp'.ret \notin 1..Len(store)
              /\ \A c \in 1..Len(store) : store'[c] = store[c] ]_vars
  /\ [](\A c \in 1..Len(store) :
          LET flag == BaseContext_getValue(store, c, SUPPRESS_INSTRUMENTATION_KEY) IN
            /\ flag \in {Absent, "null"} => ~isInstrumentationSuppressed(store, c)
            /\ isInstrumentationSuppressed(store, c)
                 = (flag \in {"true", "v1"}))

\* suppressInstrumentation on a Context that holds false under the key,
\* while another Context holds null under it.
C31_Witness ==
  /\ lastOp.op = "suppressInstrumentation"
  /\ BaseContext_getValue(store, lastOp.arg.recv, SUPPRESS_INSTRUMENTATION_KEY) = "false"
  /\ ~isInstrumentationSuppressed(store, lastOp.arg.recv)
  /\ isInstrumentationSuppressed(store, lastOp.ret)
  /\ \E c \in 1..Len(store) :
       BaseContext_getValue(store, c, SUPPRESS_INSTRUMENTATION_KEY) = "null"

\* C32: ROOT_CONTEXT stays empty: in every reachable state, whatever
\* setValue / deleteValue calls were made on ROOT_CONTEXT or on contexts
\* derived from it and whatever with / attach / detach calls were made,
\* ROOT_CONTEXT.getValue(k) answers the absent marker for every key k.
C32_RootStaysEmpty ==
  \A k \in ContextKeys :
    BaseContext_getValue(store, Deref(store, ROOT_CONTEXT), k) = Absent

\* setValue was just called on ROOT_CONTEXT itself while a context derived
\* from it is the active one.
C32_Witness ==
  /\ lastOp.op = "setValue"
  /\ ContextRef(lastOp.arg.recv) = ROOT_CONTEXT
  /\ BaseContext_getValue(store, lastOp.ret, lastOp.arg.key) = lastOp.arg.value
  /\ lastOp.arg.value # Absent
  /\ ContextAPI_active # ROOT_CONTEXT
  /\ ActiveGetValue(store, ContextAPI_active, "k1") # Absent

Authoritative ==
  LET slot == getGlobal(registry, API_NAME) IN
    IF slot = undefined THEN NOOP_CONTEXT_MANAGER ELSE slot

\* C34: one authoritative manager, resolved at each call: whatever
\* setGlobalContextManager / disable calls came before, active, with, bind,
\* attach and detach all reach the manager the registry designates at the
\* time of the call (the registered one, else the no-op manager) and no
\* other: a call made after disable() changes nothing in the disabled
\* manager or in any manager, and active() answers ROOT_CONTEXT.
C34_OneManagerPerCall ==
  /\ [][ lastOp'.op \in {"with", "bind", "attach", "detach"}
           => /\ \A m \in Managers \ {Authoritative} :
                   activeContext'[m] = activeContext[m]
              /\ Authoritative = NOOP_CONTEXT_MANAGER
                   => activeContext' = activeContext /\ restoreKeys' = restoreKeys
              /\ lastOp'.op = "with"
                   => /\ stack'[Len(stack')].mgr = Authoritative
                      /\ Authoritative # NOOP_CONTEXT_MANAGER
                           => activeContext'[Authoritative] = lastOp'.arg
              /\ (lastOp'.op = "attach" /\ Authoritative # NOOP_CONTEXT_MANAGER)
                   => /\ activeContext'[Authoritative] = lastOp'.arg
                      /\ restoreKeys'[Len(restoreKeys')].mgr = Authoritative
              /\ lastOp'.op = "detach"
                   => activeContext' = ManagerDetach(Authoritative, lastOp'.arg)
              /\ lastOp'.op = "bind" => lastOp'.ret = lastOp'.arg ]_vars
  /\ [](ContextAPI_active = IF Authoritative = NOOP_CONTEXT_MANAGER
                              THEN ROOT_CONTEXT
                              ELSE activeContext[Authoritative])

\* detach, called after disable(), of a key the disabled manager handed
\* out and would still act on.
C34_Witness ==
  /\ lastOp.op = "detach"
  /\ NoManager
  /\ lastOp.arg \in 1..Len(restoreKeys)
  /\ restoreKeys[lastOp.arg].mgr = M1
  /\ activeContext[M1] # restoreKeys[lastOp.arg].prev
  /\ activeContext[M1] # ROOT_CONTEXT
  /\ ContextAPI_active = ROOT_CONTEXT

\* C35: re-registration after teardown, idempotent disable: a
\* setGlobalContextManager(M) that follows disable(), or is made with no
\* manager registered, answers true and makes M the manager in use, also
\* when another manager was registered and disabled before; a disable()
\* that follows disable(), or is made with no manager registered, reaches
\* the no-op manager only and changes nothing.
C35_ReRegisterAfterDisable ==
  /\ [][ (lastOp'.op = "setGlobalContextManager"
            /\ (lastOp.op = "disable" \/ NoManager))
           => /\ lastOp'.ret = TRUE
              /\ getGlobal(registry', API_NAME) = lastOp'.arg
              /\ GetContextManager' = lastOp'.arg
              /\ ContextAPI_active' = activeContext[lastOp'.arg] ]_vars
  /\ [][ (lastOp'.op = "disable" /\ (lastOp.op = "disable" \/ NoManager))
           => /\ lastOp'.arg = NOOP_CONTEXT_MANAGER
              /\ UNCHANGED contextVars
              /\ GetContextManager' = NOOP_CONTEXT_MANAGER ]_vars

\* M2 was just registered with success after M1, which has made a context
\* active, was torn down.
C35_Witness ==
  /\ lastOp.op = "setGlobalContextManager"
  /\ lastOp.arg = M2
  /\ lastOp.ret = TRUE
  /\ GetContextManager = M2
  /\ activeContext[M1] # ROOT_CONTEXT
  /\ ContextAPI_active = ROOT_CONTEXT

\* C36: with restores on failure: when the callback of with(ctx, fn) throws,
\* the context that was active before the call is active again once with
\* has exited, and the caller of with gets the very error fn threw; this
\* holds for a with called at top level and for one called inside the
\* callbacks of other withs, at every depth.
C36_WithRestoresOnThrow ==
  /\ [][ (lastOp'.op = "with.call" /\ lastOp'.arg.fn.outcome = "throw")
           => /\ lastOp'.arg.before = ContextAPI_active
              /\ ContextAPI_active' = lastOp'.arg.before
              /\ activeContext' = activeContext
              /\ lastOp'.ret.result = Thrown(lastOp'.arg.fn.value) ]_vars
  /\ [][ (lastOp'.op = "return" /\ lastOp'.ret = "throw"
            /\ Top.mgr = GetContextManager)
           => /\ Tracking => ContextAPI_active' = Top.prev
              /\ ~Tracking => ContextAPI_active' = ROOT_CONTEXT
              /\ stack' = SubSeq(stack, 1, Len(stack) - 1) ]_vars

\* A with(ctxA, fn) called two callbacks deep, with ctxB active, whose fn
\* threw v1.
C36_Witness ==
  /\ lastOp.op = "with.call"
  /\ Tracking
  /\ Len(stack) = 2
  /\ FramesOfCurrent
  /\ lastOp.arg.fn.outcome = "throw"
  /\ lastOp.arg.context = "ctxA"
  /\ lastOp.arg.before = "ctxB"
  /\ lastOp.ret.calls[1].active = "ctxA"
  /\ lastOp.ret.result = Thrown("v1")
  /\ ContextAPI_active = "ctxB"

\* C37: misuse never throws: a key may be detached twice, out of attachment
\* order, after the with it was attached in has exited, or never; every
\* detach is accepted, active() keeps answering a Context, with and attach
\* keep working, and the only thing a detach changes is the context the
\* manager in use has active, which becomes the one remembered under the
\* key (possibly not the one a balanced sequence would give).
C37_MisuseNeverThrows ==
  /\ [](\A t \in 0..Len(restoreKeys) : ENABLED Detach(t))
  /\ [](ContextAPI_active \in Contexts)
  /\ [][ lastOp'.op = "detach"
           => /\ UNCHANGED <<registry, restoreKeys, stack, store>>
              /\ \A m \in Managers \ {GetContextManager} :
                   activeContext'[m] = activeContext[m]
              /\ ContextAPI_active'
                   \in {ContextAPI_active}
                         \cup {restoreKeys[t].prev : t \in 1..Len(restoreKeys)} ]_vars
  /\ [][ (lastOp'.op = "with" /\ Tracking) => ContextAPI_active' = lastOp'.arg ]_vars
  /\ [][ (lastOp'.op = "attach" /\ Tracking)
           => /\ ContextAPI_active' = lastOp'.arg
              /\ lastOp'.ret = Len(restoreKeys) + 1 ]_vars

\* A key attached inside with(ctxA, ..) was detached after that with had
\* exited: at top level active() now answers ctxA, not ROOT_CONTEXT.
C37_Witness ==
  /\ lastOp.op = "detach"
  /\ lastOp.arg = 1
  /\ Tracking
  /\ stack = <<>>
  /\ Len(restoreKeys) = 1
  /\ restoreKeys[1].mgr = GetContextManager
  /\ restoreKeys[1].prev = "ctxA"
  /\ ContextAPI_active = "ctxA"

\* C38: logger / level consistency of the registry-backed DiagAPI: after
\* any sequence of setLogger and setLogLevel calls the filter the log calls
\* go through is the one built from the level set last (INFO if setLogLevel
\* was never called) and the logger set last (the no-op logger if none);
\* setLogger keeps the level, setLogLevel keeps the logger, getLogger()
\* answers the logger set last, unfiltered, and a log call reaches that
\* logger exactly when the level set last admits its severity.
C38_LoggerLevelConsistent ==
  /\ [](getGlobal(registry, FILTERED_DIAG_LOGGER) # undefined
          => /\ getGlobal(registry, FILTERED_DIAG_LOGGER)
                  = createLogLevelDiagLogger(getLevel(registry),
                                             diag_getLogger(registry))
             /\ getGlobal(registry, DIAG_LOG_LEVEL) = undefined
                  => getGlobal(registry, FILTERED_DIAG_LOGGER).maxLevel
                       = DiagLogLevel.INFO)
  /\ [][ lastOp'.op = "diagts.setLogger"
           => /\ getLevel(registry') = getLevel(registry)
              /\ getGlobal(registry', DIAG_LOG_LEVEL)
                   = getGlobal(registry, DIAG_LOG_LEVEL)
              /\ diag_getLogger(registry')
                   = IF lastOp'.arg.logger.kind = "omitted"
                       THEN NoopDiagLogger ELSE lastOp'.arg.logger ]_vars
  /\ [][ lastOp'.op = "diagts.setLogLevel"
           => /\ getLevel(registry') = lastOp'.arg.maxLogLevel
              /\ diag_getLogger(registry') = diag_getLogger(registry)
              /\ getGlobal(registry', DIAG_LOGGER)
                   = getGlobal(registry, DIAG_LOGGER) ]_vars
  /\ [][ lastOp'.op = "diagts.log"
           => /\ diag_getLogger(registry).kind = "DiagLogger"
                   => lastOp'.ret = Filtered(getLevel(registry),
                                             diag_getLogger(registry),
                                             lastOp'.arg.funcName,
                                             lastOp'.arg.args)
              /\ diag_getLogger(registry).kind = "NoopDiagLogger"
                   => lastOp'.ret = Dropped ]_vars

\* setLogger(L2) replaced L1 after the level had been set to WARN: the
\* filter in use is the one at WARN around L2.
C38_Witness ==
  /\ lastOp.op = "diagts.setLogger"
  /\ lastOp.arg.logger = L2
  /\ lastOp.arg.prior = L1
  /\ getGlobal(registry, DIAG_LOG_LEVEL) = Level(DiagLogLevel.WARN)
  /\ getGlobal(registry, FILTERED_DIAG_LOGGER).maxLevel = DiagLogLevel.WARN
  /\ getGlobal(registry, FILTERED_DIAG_LOGGER).logger = L2
  /\ diag_getLogger(registry) = L2

\* C39: an incompatible caller cannot disturb the shared logger: setLogger,
\* disable and every log method called on the private no-op DiagAPI handed
\* to a caller of another version leave the logger and level configured on
\* the shared DiagAPI (and on every DiagAPI) as they were and call no
\* logger, and DiagAPI.instance() called by a caller of another version
\* than the stored getter's leaves the getter in the global slot in place
\* and answers a no-op DiagAPI.
C39_MismatchedCallerIsolated ==
  /\ [][ (/\ lastOp'.op \in {"diag.copy.setLogger", "diag.copy.disable",
                              "diag.copy.log"}
          /\ held[lastOp'.arg.copy].kind = "noopDiagApi")
           => /\ filteredLogger' = filteredLogger
              /\ globalDiag' = globalDiag
              /\ held' = held
              /\ lastOp'.op = "diag.copy.log" => lastOp'.ret = Dropped ]_vars
  /\ [][ (/\ lastOp'.op = "diag.instance"
          /\ globalDiag # undefined
          /\ CopyVersion[lastOp'.arg.copy] # globalDiag.version)
           => /\ globalDiag' = globalDiag
              /\ filteredLogger' = filteredLogger
              /\ lastOp'.ret.kind = "noopDiagApi"
              /\ lastOp'.ret # globalDiag.instance ]_vars

\* The caller of another version called setLogger(L2, ..) on its no-op
\* DiagAPI while the shared DiagAPI forwards to L1.
C39_Witness ==
  /\ lastOp.op = "diag.copy.setLogger"
  /\ held[lastOp.arg.copy].kind = "noopDiagApi"
  /\ lastOp.arg.logger = L2
  /\ globalDiag # undefined
  /\ CopyVersion[lastOp.arg.copy] # globalDiag.version
  /\ filteredLogger[globalDiag.instance.id] # undefined
  /\ filteredLogger[globalDiag.instance.id].logger = L1

\* C40: the span is ended exactly once on every path of withSpan /
\* withActiveSpan whose callback was called and has settled: it returned,
\* it threw, its promise was fulfilled or its promise was rejected, also
\* when the exception handler supplied by the caller throws while handling
\* the failure.
C40_SpanEndedExactlyOnce ==
  (/\ spanState.kind = "span"
   /\ ~spanState.pending
   /\ Times("fn(span)") = 1)
    => Times("span.end()") = 1

====
